---- MODULE Spec2Model ----
(***************************************************************************)
(* ClipSync relay server (src/server.js, second program of the file, lines *)
(* 163-738) with the auto-resume block of the connection handler           *)
(* (src/unnamed/part_002, lines 181-198).                                  *)
(*                                                                         *)
(* The server is single-threaded: every handler (HTTP request, upgrade,   *)
(* frame, close event, timer) runs to completion, so each handler is one   *)
(* action.  sess[p] is the pair object created by GET /pair; registry is   *)
(* the key set of the Map `pairs`.  A pair object deleted from the Map     *)
(* stays reachable through the closure variable `pair` of the connections  *)
(* made for it, so sess keeps it.                                          *)
(*                                                                         *)
(* out is what the last step wrote: the frames, in order, each with the     *)
(* connection it was written to (NoConn: the raw transport of an upgrade   *)
(* request, which is destroyed).                                           *)
(*                                                                         *)
(* now is Date.now() in minutes (the period of the stale timer is the      *)
(* unit); lastActivity[p] is the field lastActivity of the pair object p.  *)
(* arrived[p] and paired[p] record the past of the pair object p and are   *)
(* read by no handler: the clipboard frames received on it, in arrival     *)
(* order, and whether its two slots have ever been set at the same time.   *)
(*                                                                         *)
(* timers holds the pending setTimeout callbacks the scenarios follow one   *)
(* by one: the retries of attemptSend and the cleanup armed when a record   *)
(* completes, each with the variables of its closure.  client is the state *)
(* of the two devices in those scenarios (see the section devices).        *)
(*                                                                         *)
(* Specifications: Spec and SpecCap (the file-transfer frames, the clock   *)
(* stopped), SpecTime (the same with the clock and the stale timers),      *)
(* SpecRelay (minting, connecting and clipboard frames, with a history at  *)
(* the limit of 50), SpecBudget (file_meta frames at the size budget),     *)
(* SpecRetry (two devices and one file, with failing sends, retries and    *)
(* disconnections), SpecFlow (two devices that stay connected, with the    *)
(* clock, under fair scheduling), SpecClean (the same with transfers given *)
(* up and file ids used again), SpecRaw (raw texts in and around the JSON  *)
(* grammar), SpecPeers (two sessions side by side) and SpecBeat (the       *)
(* heartbeat, with conn[c].isAlive the flag of the socket and the ticks    *)
(* and pongs of each socket counted in client).                            *)
(***************************************************************************)
EXTENDS Integers, Sequences, FiniteSets, TLC

VARIABLES registry, sess, conn, out, now, lastActivity, arrived, paired, timers, client

vars == <<registry, sess, conn, out, now, lastActivity, arrived, paired, timers, client>>

\* ------------------------------------------------------------- bounds ----
\* WebSocket objects alive at the same time (made by wss.handleUpgrade, gone
\* once their close event is handled)
MaxConns == 2
\* the totalChunks a client announces; chunk indices sent are 0..MaxChunks
MaxChunks == 2
\* the clock stops at MaxTime minutes
MaxTime == 5
\* clipboard frames received on one pair object
MaxClips == 2
\* file_chunk frames a device sends in the scenarios with send failures
MaxSends == 2
\* how deep the objects of the JSON texts tried are nested
MaxDepth == 2
\* ticks of the heartbeat a socket goes through
MaxBeats == 3

PairIds == {"p1"}
Tokens == {"t1"}
Roles == {"pc", "app"}
FileOrder == <<"F", "G">>
FileIds == {FileOrder[k] : k \in 1..Len(FileOrder)}
Conns == 1..MaxConns
NoConn == 0
ChunkIdx == 0..MaxChunks

\* ------------------------------------------------------ configuration ----
\* process.env.MAX_SIMULTANEOUS_FILES (the default is 5); the model runs the
\* server with MAX_SIMULTANEOUS_FILES=1 in its environment
MAX_SIMULTANEOUS_FILES == 1
\* CHUNK_SIZE and MAX_FILE_SIZE, in KiB
CHUNK_SIZE == 64
MAX_FILE_SIZE == 5242880
NoSize == -1
\* the period of the stale timer (60000 ms), the unit of time
STALE_INTERVAL == 1
\* process.env.FILE_CLEANUP_TIMEOUT and process.env.PAIR_CLEANUP_TIMEOUT (the
\* defaults are 30 min and 12 h); the model runs the server with
\* FILE_CLEANUP_TIMEOUT=120000 and PAIR_CLEANUP_TIMEOUT=180000, in minutes here
FILE_CLEANUP_TIMEOUT == 2
PAIR_CLEANUP_TIMEOUT == 3
\* the length clipboardHistory is cut back to
HISTORY_LIMIT == 50
\* process.env.CHUNK_RETRY_LIMIT, at its default
CHUNK_RETRY_LIMIT == 3

\* ------------------------------------------------------------- frames ----
Frame(type, fileId, chunkIndex, totalChunks, receivedChunks, chunks, text) ==
  [type |-> type, fileId |-> fileId, chunkIndex |-> chunkIndex,
   totalChunks |-> totalChunks, receivedChunks |-> receivedChunks,
   chunks |-> chunks, text |-> text, from |-> ""]

TextFrame(type, text) == Frame(type, "", -1, -1, -1, <<>>, text)
FileFrame(type, fileId, text) == Frame(type, fileId, -1, -1, -1, <<>>, text)

\* ---------------------------------------------------------- utilities ----
\* the two devices of a session before any transfer (see the section devices)
NoClient ==
  [unsent |-> {}, unacked |-> {}, sent |-> <<>>, got |-> <<>>,
   notice |-> [f \in FileIds |-> ""], asked |-> {}, done |-> {}, raw |-> <<>>,
   beats |-> [c \in Conns |-> 0], pongs |-> [c \in Conns |-> 0]]

\* a socket object that does not exist (not yet made, or closed and its close
\* event handled)
NoSocket == [state |-> "none", pairId |-> "", clientType |-> "", deviceName |-> "", staleTimer |-> -1, isAlive |-> TRUE]

\* a variant that answers the role it is given
getSameType(t) == t

getOtherType(t) == IF t = "pc" THEN "app" ELSE "pc"

IsOpen(cn, c) == c # NoConn /\ cn[c].state = "open"

\* safeSend(sock, obj): the frame is written iff sock is set and OPEN
safeSend(cn, c, frame) ==
  IF IsOpen(cn, c) THEN <<[to |-> c, frame |-> frame]>> ELSE <<>>

\* ws.close(): OPEN becomes CLOSING; the close event comes later
CloseSock(cn, c) ==
  IF IsOpen(cn, c) THEN [cn EXCEPT ![c].state = "closing"] ELSE cn

\* a variant of the budget test that refuses a file of exactly MAX_FILE_SIZE
validateFileBudgetBelow(totalChunks, declaredSize) ==
  LET estimated == totalChunks * CHUNK_SIZE
      size == IF declaredSize # NoSize THEN declaredSize ELSE estimated
  IN size < MAX_FILE_SIZE

validateFileBudget(totalChunks, declaredSize) ==
  LET estimated == totalChunks * CHUNK_SIZE
      size == IF declaredSize # NoSize THEN declaredSize ELSE estimated
  IN size <= MAX_FILE_SIZE

\* the loop `for (i = 0; i < totalChunks; i++) if (!receivedMap.has(i)) missing.push(i)`
RECURSIVE MissingFrom(_, _)
MissingFrom(file, i) ==
  IF i >= file.totalChunks THEN <<>>
  ELSE (IF i \in file.receivedMap THEN <<>> ELSE <<i>>) \o MissingFrom(file, i + 1)

\* a scan that starts one index late: it never asks for chunk 0
MissingAfterFirst(file) == MissingFrom(file, 1)

Missing(file) == MissingFrom(file, 0)

ActiveCount(pair) ==
  Cardinality({f \in DOMAIN pair.files : pair.files[f].status \in {"sending", "paused"}})

\* the pair object of GET /pair, but for its lastActivity
NewPair(token, t) ==
  [token |-> token, slot |-> [r \in Roles |-> NoConn], clipboardHistory |-> <<>>,
   files |-> <<>>, createdAt |-> t]

NewFile(fileId, totalChunks, clientType, t) ==
  [fileId |-> fileId, totalChunks |-> totalChunks, receivedChunks |-> 0,
   receivedMap |-> {}, status |-> "sending", senderType |-> clientType,
   lastActivity |-> t]

\* g[p] = v, for a pair object p made now or earlier
Put(g, p, v) == [q \in (DOMAIN g) \cup {p} |-> IF q = p THEN v ELSE g[q]]

\* pair.files[fileId] = rec
PutFile(files, fileId, rec) ==
  [f \in (DOMAIN files) \cup {fileId} |-> IF f = fileId THEN rec ELSE files[f]]

\* delete pair.files[fileId]
DelFile(files, fileId) ==
  [f \in (DOMAIN files) \ {fileId} |-> files[f]]

\* ----------------------------------------------------------- GET /pair ----
\* generatePairId/generateToken draw at random and pairs.set() replaces the
\* pair object of an id that is in the Map. sess holds one pair object per id,
\* so an id is drawn again only when no socket and no timer is left whose
\* handlers still hold the earlier pair object of that id.
Mint(p, token) ==
  /\ \A c \in Conns : conn[c].state = "none" \/ conn[c].pairId # p
  /\ \A t \in timers : t.pairId # p
  /\ registry' = registry \cup {p}
  /\ sess' = Put(sess, p, NewPair(token, now))
  /\ lastActivity' = Put(lastActivity, p, now)
  /\ arrived' = Put(arrived, p, <<>>)
  /\ paired' = Put(paired, p, FALSE)
  /\ out' = <<>>
  /\ UNCHANGED <<conn, now, timers, client>>

\* ------------------------------------------------ wss.on("connection") ----
\* for (const f of Object.values(pair.files)): file_meta to the receiver side,
\* file_progress to the sender side, for every record that is not completed
RECURSIVE SyncFrom(_, _, _, _, _)
SyncFrom(cn, pair, c, clientType, k) ==
  IF k > Len(FileOrder) THEN <<>>
  ELSE LET fid == FileOrder[k]
           rest == SyncFrom(cn, pair, c, clientType, k + 1)
       IN IF fid \notin DOMAIN pair.files THEN rest
          ELSE LET f == pair.files[fid]
               IN IF f.status = "completed" THEN rest
                  ELSE IF clientType # f.senderType
                       THEN safeSend(cn, c, Frame("file_meta", fid, -1, f.totalChunks, -1, <<>>, "")) \o rest
                       ELSE safeSend(cn, c, Frame("file_progress", fid, -1, f.totalChunks, f.receivedChunks, <<>>, "")) \o rest

\* the block "Automatically trigger resume": for every paused record ask the
\* sender socket, if it is open, for the chunks missing from receivedMap
RECURSIVE AutoResumeFrom(_, _, _)
AutoResumeFrom(cn, pair, k) ==
  IF k > Len(FileOrder) THEN <<>>
  ELSE LET fid == FileOrder[k]
           rest == AutoResumeFrom(cn, pair, k + 1)
       IN IF fid \notin DOMAIN pair.files THEN rest
          ELSE LET file == pair.files[fid]
                   missing == Missing(file)
                   senderWs == pair.slot[file.senderType]
               IN IF file.status = "paused" /\ IsOpen(cn, senderWs) /\ Len(missing) > 0
                  THEN <<[to |-> senderWs,
                          frame |-> Frame("file_missing_chunks", fid, -1, -1, -1, missing, "")]>> \o rest
                  ELSE rest

\* if (pair.pc && pair.app) { notify both sides; auto-resume }
BothConnected(cn, pair) ==
  IF pair.slot["pc"] # NoConn /\ pair.slot["app"] # NoConn
  THEN safeSend(cn, pair.slot["pc"], TextFrame("status", "Mobile connected"))
       \o safeSend(cn, pair.slot["app"], TextFrame("status", "PC connected"))
       \o AutoResumeFrom(cn, pair, 1)
  ELSE <<>>

\* a clipboard frame written by the server
ClipFrame(from, content) == [TextFrame("clipboard", content) EXCEPT !.from = from]

\* a variant of the replay that walks the history from its newest entry
RECURSIVE ReplayBackFrom(_, _, _, _)
ReplayBackFrom(cn, c, history, k) ==
  IF k > Len(history) THEN <<>>
  ELSE ReplayBackFrom(cn, c, history, k + 1)
       \o safeSend(cn, c, ClipFrame(history[k].from, history[k].content))

\* for (const item of pair.clipboardHistory) safeSend(ws, {clipboard, from, content})
RECURSIVE ReplayFrom(_, _, _, _)
ReplayFrom(cn, c, history, k) ==
  IF k > Len(history) THEN <<>>
  ELSE safeSend(cn, c, ClipFrame(history[k].from, history[k].content))
       \o ReplayFrom(cn, c, history, k + 1)

\* the connection handler for the new socket c; without the checks of the
\* upgrade handler it does not set up the staleTimer of a refused socket
Connection(c, clientType, pairId, token, deviceName) ==
  LET cn0 == [conn EXCEPT ![c] = [state |-> "open", pairId |-> pairId, clientType |-> clientType,
                                  deviceName |-> IF deviceName = "" THEN "Unknown" ELSE deviceName,
                                  staleTimer |-> -1, isAlive |-> TRUE]]
  IN IF pairId \notin registry \/ sess[pairId].token # token
     THEN /\ out' = safeSend(cn0, c, TextFrame("error", "Invalid pair or token"))
          /\ conn' = CloseSock(cn0, c)
          /\ UNCHANGED <<registry, sess, now, lastActivity, arrived, paired, timers>>
     ELSE LET pair0 == sess[pairId]
              old == pair0.slot[clientType]
              \* replace any existing socket on this side
              cn1 == CloseSock(cn0, old)
              pair1 == [pair0 EXCEPT !.slot[clientType] = c]
          IN \* setInterval(..., 60000)
             /\ conn' = [cn1 EXCEPT ![c].staleTimer = now + STALE_INTERVAL]
             /\ sess' = [sess EXCEPT ![pairId] = pair1]
             /\ lastActivity' = [lastActivity EXCEPT ![pairId] = now]
             /\ out' = safeSend(cn1, c, TextFrame("status", clientType \o " registered."))
                       \o ReplayFrom(cn1, c, pair1.clipboardHistory, 1)
                       \o SyncFrom(cn1, pair1, c, clientType, 1)
                       \o BothConnected(cn1, pair1)
             /\ paired' = [paired EXCEPT ![pairId] =
                             @ \/ (pair1.slot["pc"] # NoConn /\ pair1.slot["app"] # NoConn)]
             /\ UNCHANGED <<registry, now, arrived, timers>>

\* ------------------------------------------------ server.on("upgrade") ----
\* pathname with its trailing slashes removed
NormPath(raw) == IF raw = "/connect/" THEN "/connect" ELSE raw

\* a parameter absent from the query string reads as "" here
UpgradePaths == {"/connect", "/connect/", "/pair"}
UpgradePairIds == PairIds \cup {"", "ffffff"}
UpgradeTokens == Tokens \cup {"", "t0"}
UpgradeTypes == Roles \cup {"", "tv"}

\* the deviceName of the query string: the desktop client names its host, the
\* mobile client sends none
QueryDeviceName(type) == IF type = "pc" THEN "desk" ELSE ""

\* the requests tried: the plain ones ("/connect", a minted id, its token, a
\* role) and the ones with exactly one of the four parts off the plain ones
UpgradeInputs ==
  (UpgradePaths \X PairIds \X Tokens \X {"pc"})
  \cup ({"/connect"} \X UpgradePairIds \X Tokens \X {"app"})
  \cup ({"/connect"} \X PairIds \X UpgradeTokens \X {"pc"})
  \cup ({"/connect"} \X PairIds \X Tokens \X UpgradeTypes)

\* a variant of the checks that does not compare the token
UpgradeAcceptsAnyToken(path, pairId, token, type) ==
  /\ NormPath(path) = "/connect"
  /\ ~(pairId = "" \/ token = "" \/ type = "")
  /\ pairId \in registry
  /\ ~(type # "pc" /\ type # "app")

\* the checks of the upgrade handler, in the handler's order
UpgradeAccepts(path, pairId, token, type) ==
  /\ NormPath(path) = "/connect"
  /\ ~(pairId = "" \/ token = "" \/ type = "")
  /\ pairId \in registry
  /\ sess[pairId].token = token
  /\ ~(type # "pc" /\ type # "app")

\* a socket object not in use: no handler of it is pending and no slot names it
IsFree(c) ==
  /\ conn[c].state = "none"
  /\ \A p \in DOMAIN sess, r \in Roles : sess[p].slot[r] # c

FreeConn == CHOOSE c \in Conns : IsFree(c) /\ \A d \in Conns : d < c => ~IsFree(d)

Destroyed == <<[to |-> NoConn, frame |-> TextFrame("destroy", "")]>>

Upgrade(path, pairId, token, type) ==
  IF UpgradeAccepts(path, pairId, token, type)
  THEN /\ \E c \in Conns : IsFree(c)
       /\ Connection(FreeConn, type, pairId, token, QueryDeviceName(type))
  ELSE \* socket.destroy()
       /\ out' = Destroyed
       /\ UNCHANGED <<registry, sess, conn, now, lastActivity, arrived, paired, timers>>

\* ---------------------------------------------------- ws.on("message") ----
\* frames are read from a socket until its transport is gone; `pair` is the
\* closure variable of the connection handler
CanReceive(c) == conn[c].state \in {"open", "closing"}
PairOf(c) == sess[conn[c].pairId]

\* a variant that writes to the slot of the role the frame came from
sendToSame(cn, pair, clientType, frame) ==
  safeSend(cn, pair.slot[clientType], frame)

\* a variant that keeps one socket per role for the whole server: it writes to
\* the open connection of the other role that was made last, of any session
sendToOtherOfAny(cn, pair, clientType, frame) ==
  LET others == {c \in DOMAIN cn : IsOpen(cn, c) /\ cn[c].clientType = getOtherType(clientType)}
  IN IF others = {} THEN <<>>
     ELSE <<[to |-> CHOOSE c \in others : \A d \in others : d <= c, frame |-> frame]>>

\* sendToOther(obj) of the connection of role clientType
sendToOther(cn, pair, clientType, frame) ==
  safeSend(cn, pair.slot[getOtherType(clientType)], frame)

SetFile(c, fileId, rec) ==
  sess' = [sess EXCEPT ![conn[c].pairId].files = PutFile(@, fileId, rec)]

\* --- file_meta ---
MetaTotals == {0, MaxChunks}
MetaNames == {"x.bin"}
MetaSizes == {NoSize}

FileMetaAccepted(pair, fileId, fileName, totalChunks, totalSize) ==
  /\ ~(ActiveCount(pair) >= MAX_SIMULTANEOUS_FILES)
  /\ ~(totalChunks <= 0 \/ fileId = "" \/ fileName = "")
  /\ validateFileBudget(totalChunks, totalSize)

\* a variant of the handler that refuses a transfer only when more than
\* MAX_SIMULTANEOUS_FILES are active
FileMetaHandlerOver(c, fileId, fileName, totalChunks, totalSize) ==
  LET pair == PairOf(c)
      clientType == conn[c].clientType
  IN IF ActiveCount(pair) > MAX_SIMULTANEOUS_FILES
     THEN /\ out' = safeSend(conn, c, TextFrame("error", "Too many simultaneous file transfers"))
          /\ UNCHANGED <<registry, sess, conn>>
     ELSE IF totalChunks <= 0 \/ fileId = "" \/ fileName = ""
     THEN /\ out' = safeSend(conn, c, TextFrame("error", "Invalid file meta"))
          /\ UNCHANGED <<registry, sess, conn>>
     ELSE IF ~validateFileBudget(totalChunks, totalSize)
     THEN /\ out' = safeSend(conn, c, TextFrame("error", "File too large"))
          /\ UNCHANGED <<registry, sess, conn>>
     ELSE /\ SetFile(c, fileId, NewFile(fileId, totalChunks, clientType, now))
          /\ out' = sendToOther(conn, pair, clientType,
                                Frame("file_meta", fileId, -1, totalChunks, -1, <<>>, ""))
          /\ UNCHANGED <<registry, conn>>

\* a variant of the handler that takes up the record a fileId already has
\* instead of replacing it
FileMetaHandlerKeeps(c, fileId, fileName, totalChunks, totalSize) ==
  LET pair == PairOf(c)
      clientType == conn[c].clientType
  IN IF ActiveCount(pair) >= MAX_SIMULTANEOUS_FILES
     THEN /\ out' = safeSend(conn, c, TextFrame("error", "Too many simultaneous file transfers"))
          /\ UNCHANGED <<registry, sess, conn>>
     ELSE IF totalChunks <= 0 \/ fileId = "" \/ fileName = ""
     THEN /\ out' = safeSend(conn, c, TextFrame("error", "Invalid file meta"))
          /\ UNCHANGED <<registry, sess, conn>>
     ELSE IF ~validateFileBudget(totalChunks, totalSize)
     THEN /\ out' = safeSend(conn, c, TextFrame("error", "File too large"))
          /\ UNCHANGED <<registry, sess, conn>>
     ELSE /\ SetFile(c, fileId, IF fileId \in DOMAIN pair.files
                                THEN [pair.files[fileId] EXCEPT !.status = "sending", !.lastActivity = now]
                                ELSE NewFile(fileId, totalChunks, clientType, now))
          /\ out' = sendToOther(conn, pair, clientType,
                                Frame("file_meta", fileId, -1, totalChunks, -1, <<>>, ""))
          /\ UNCHANGED <<registry, conn>>

FileMetaHandler(c, fileId, fileName, totalChunks, totalSize) ==
  LET pair == PairOf(c)
      clientType == conn[c].clientType
  IN IF ActiveCount(pair) >= MAX_SIMULTANEOUS_FILES
     THEN /\ out' = safeSend(conn, c, TextFrame("error", "Too many simultaneous file transfers"))
          /\ UNCHANGED <<registry, sess, conn>>
     ELSE IF totalChunks <= 0 \/ fileId = "" \/ fileName = ""
     THEN /\ out' = safeSend(conn, c, TextFrame("error", "Invalid file meta"))
          /\ UNCHANGED <<registry, sess, conn>>
     ELSE IF ~validateFileBudget(totalChunks, totalSize)
     THEN /\ out' = safeSend(conn, c, TextFrame("error", "File too large"))
          /\ UNCHANGED <<registry, sess, conn>>
     ELSE /\ SetFile(c, fileId, NewFile(fileId, totalChunks, clientType, now))
          /\ out' = sendToOther(conn, pair, clientType,
                                Frame("file_meta", fileId, -1, totalChunks, -1, <<>>, ""))
          /\ UNCHANGED <<registry, conn>>

\* --- file_chunk ---
\* a variant of the handler that marks a chunk received when it forwards it
FileChunkHandlerMarks(c, fileId, chunkIndex) ==
  LET pair == PairOf(c)
      clientType == conn[c].clientType
  IN IF fileId \notin DOMAIN pair.files
     THEN out' = <<>> /\ UNCHANGED <<registry, sess, conn>>
     ELSE LET file == pair.files[fileId]
              receiver == pair.slot[getOtherType(clientType)]
          IN IF file.status = "paused"
             THEN out' = <<>> /\ UNCHANGED <<registry, sess, conn>>
             ELSE IF ~IsOpen(conn, receiver)
             THEN /\ SetFile(c, fileId, [file EXCEPT !.status = "paused", !.lastActivity = now])
                  /\ out' = safeSend(conn, c, FileFrame("file_paused", fileId, "Receiver unavailable"))
                            \o sendToOther(conn, pair, clientType,
                                           FileFrame("file_paused", fileId, "Receiver unavailable"))
                  /\ UNCHANGED <<registry, conn>>
             ELSE IF chunkIndex \in file.receivedMap
             THEN out' = <<>> /\ UNCHANGED <<registry, sess, conn>>
             ELSE /\ out' = <<[to |-> receiver,
                               frame |-> Frame("file_chunk", fileId, chunkIndex, file.totalChunks, -1, <<>>, "")]>>
                  /\ SetFile(c, fileId, [file EXCEPT !.receivedMap = @ \cup {chunkIndex},
                                                     !.receivedChunks = Cardinality(file.receivedMap \cup {chunkIndex})])
                  /\ UNCHANGED <<registry, conn>>

FileChunkHandler(c, fileId, chunkIndex) ==
  LET pair == PairOf(c)
      clientType == conn[c].clientType
  IN IF fileId \notin DOMAIN pair.files
     THEN out' = <<>> /\ UNCHANGED <<registry, sess, conn>>
     ELSE LET file == pair.files[fileId]
              receiver == pair.slot[getOtherType(clientType)]
          IN IF file.status = "paused"
             THEN out' = <<>> /\ UNCHANGED <<registry, sess, conn>>
             ELSE IF ~IsOpen(conn, receiver)
             THEN /\ SetFile(c, fileId, [file EXCEPT !.status = "paused", !.lastActivity = now])
                  /\ out' = safeSend(conn, c, FileFrame("file_paused", fileId, "Receiver unavailable"))
                            \o sendToOther(conn, pair, clientType,
                                           FileFrame("file_paused", fileId, "Receiver unavailable"))
                  /\ UNCHANGED <<registry, conn>>
             ELSE IF chunkIndex \in file.receivedMap
             THEN out' = <<>> /\ UNCHANGED <<registry, sess, conn>>
             ELSE \* attemptSend(): receiver.send(payload); the entry retries[chunkIndex]
                  \* it leaves in the record is never read
                  /\ out' = <<[to |-> receiver,
                               frame |-> Frame("file_chunk", fileId, chunkIndex, file.totalChunks, -1, <<>>, "")]>>
                  /\ UNCHANGED <<registry, sess, conn>>

\* --- file_chunk_ack ---
AckRecord(file, chunkIndex, t) ==
  IF chunkIndex \notin file.receivedMap
  THEN [file EXCEPT !.receivedMap = @ \cup {chunkIndex},
                    !.receivedChunks = Cardinality(file.receivedMap \cup {chunkIndex}),
                    !.lastActivity = t]
  ELSE file

AckCompletes(file) == file.receivedChunks >= file.totalChunks

FileChunkAckHandler(c, fileId, chunkIndex) ==
  LET pair == PairOf(c)
      clientType == conn[c].clientType
  IN IF fileId \notin DOMAIN pair.files
     THEN out' = <<>> /\ UNCHANGED <<registry, sess, conn>>
     ELSE LET file == AckRecord(pair.files[fileId], chunkIndex, now)
              sender == pair.slot[file.senderType]
              receiver == pair.slot[getOtherType(file.senderType)]
              acks == safeSend(conn, sender, Frame("file_chunk_ack", fileId, chunkIndex, -1, -1, <<>>, ""))
                      \o safeSend(conn, receiver,
                                  Frame("file_progress", fileId, -1, file.totalChunks, file.receivedChunks, <<>>, ""))
          IN IF AckCompletes(file)
             THEN /\ SetFile(c, fileId, [file EXCEPT !.status = "completed"])
                  /\ out' = acks \o sendToOther(conn, pair, clientType, FileFrame("file_complete", fileId, ""))
                                 \o safeSend(conn, sender, FileFrame("file_complete", fileId, ""))
                  \* setTimeout(..., FILE_CLEANUP_TIMEOUT): see CompletedCleanup and AckChunk
                  /\ UNCHANGED <<registry, conn>>
             ELSE /\ SetFile(c, fileId, file)
                  /\ out' = acks
                  /\ UNCHANGED <<registry, conn>>

\* --- file_complete ---
\* a variant that forwards file_complete only when the record's sender sent it
FileCompleteHandlerFromSender(c, fileId) ==
  LET pair == PairOf(c)
  IN IF fileId \notin DOMAIN pair.files
     THEN out' = <<>> /\ UNCHANGED <<registry, sess, conn>>
     ELSE /\ SetFile(c, fileId, [pair.files[fileId] EXCEPT !.lastActivity = now])
          /\ out' = IF conn[c].clientType = pair.files[fileId].senderType
                    THEN sendToOther(conn, pair, conn[c].clientType, FileFrame("file_complete", fileId, ""))
                    ELSE <<>>
          /\ UNCHANGED <<registry, conn>>

FileCompleteHandler(c, fileId) ==
  LET pair == PairOf(c)
  IN IF fileId \notin DOMAIN pair.files
     THEN out' = <<>> /\ UNCHANGED <<registry, sess, conn>>
     ELSE /\ SetFile(c, fileId, [pair.files[fileId] EXCEPT !.lastActivity = now])
          /\ out' = sendToOther(conn, pair, conn[c].clientType, FileFrame("file_complete", fileId, ""))
          /\ UNCHANGED <<registry, conn>>

\* --- pause_file ---
PauseFileHandler(c, fileId) ==
  LET pair == PairOf(c)
  IN IF fileId \notin DOMAIN pair.files
     THEN out' = <<>> /\ UNCHANGED <<registry, sess, conn>>
     ELSE /\ SetFile(c, fileId, [pair.files[fileId] EXCEPT !.status = "paused", !.lastActivity = now])
          /\ out' = safeSend(conn, c, FileFrame("file_paused", fileId, ""))
                    \o sendToOther(conn, pair, conn[c].clientType, FileFrame("file_paused", fileId, ""))
          /\ UNCHANGED <<registry, conn>>

\* --- resume_file ---
ResumeRequest(cn, pair, file) ==
  LET missing == Missing(file)
      senderWs == pair.slot[file.senderType]
  IN IF IsOpen(cn, senderWs) /\ Len(missing) > 0
     THEN <<[to |-> senderWs, frame |-> Frame("file_missing_chunks", file.fileId, -1, -1, -1, missing, "")]>>
     ELSE <<>>

ResumeFileHandler(c, fileId) ==
  LET pair == PairOf(c)
  IN IF fileId \notin DOMAIN pair.files \/ pair.files[fileId].status = "completed"
     THEN out' = <<>> /\ UNCHANGED <<registry, sess, conn>>
     ELSE LET file == pair.files[fileId]
          IN /\ SetFile(c, fileId, [file EXCEPT !.status = "sending", !.lastActivity = now])
             /\ out' = safeSend(conn, c, FileFrame("file_resumed", fileId, ""))
                       \o sendToOther(conn, pair, conn[c].clientType, FileFrame("file_resumed", fileId, ""))
                       \o ResumeRequest(conn, pair, file)
             /\ UNCHANGED <<registry, conn>>

\* --- request_chunks ---
RequestInputs == {<<>>, <<1, 0>>}

RequestChunksHandler(c, fileId, chunks) ==
  LET pair == PairOf(c)
  IN /\ out' = IF fileId \in DOMAIN pair.files /\ Len(chunks) > 0
               THEN safeSend(conn, pair.slot[pair.files[fileId].senderType],
                             Frame("file_missing_chunks", fileId, -1, -1, -1, chunks, ""))
               ELSE <<>>
     /\ UNCHANGED <<registry, sess, conn>>

\* --- file_missing_chunks ---
\* an element of chunks is an object {chunkIndex, data} (a chunk index >= 0
\* here) or a bare number (encoded -1 - index), which the handler ignores
ResendInputs == {<<-1, 0>>, <<0, 1>>}

RECURSIVE ResendFrom(_, _, _, _, _)
ResendFrom(cn, receiver, fileId, total, items) ==
  IF items = <<>> THEN <<>>
  ELSE (IF Head(items) >= 0
        THEN safeSend(cn, receiver, Frame("file_chunk", fileId, Head(items), total, -1, <<>>, ""))
        ELSE <<>>) \o ResendFrom(cn, receiver, fileId, total, Tail(items))

FileMissingChunksHandler(c, fileId, chunks) ==
  LET pair == PairOf(c)
      total == IF fileId \in DOMAIN pair.files THEN pair.files[fileId].totalChunks ELSE -1
  IN /\ out' = ResendFrom(conn, pair.slot[getOtherType(conn[c].clientType)], fileId, total, chunks)
     /\ UNCHANGED <<registry, sess, conn>>

\* --- clipboard ---
\* content is absent from the frame (NoContent) or a string
NoContent == "undefined"
ClipContents == {NoContent, "a"}

\* the frames tried: on a history that is short, or within MaxClips of the limit
ClipLengths == (0..(MaxClips - 1)) \cup ((HISTORY_LIMIT - 1)..(HISTORY_LIMIT + MaxClips - 2))

\* data.content || ""
ContentOrEmpty(content) == IF content = NoContent \/ content = "" THEN "" ELSE content

\* a variant of the cut that keeps the oldest entries
KeepFirst(history) ==
  IF Len(history) > HISTORY_LIMIT THEN SubSeq(history, 1, HISTORY_LIMIT) ELSE history

\* if (history.length > 50) history = history.slice(-50)
KeepLast(history) ==
  IF Len(history) > HISTORY_LIMIT
  THEN SubSeq(history, Len(history) - HISTORY_LIMIT + 1, Len(history))
  ELSE history

ClipboardHandler(c, content) ==
  LET pair == PairOf(c)
      entry == [from |-> conn[c].deviceName, content |-> ContentOrEmpty(content), timestamp |-> now]
  IN /\ sess' = [sess EXCEPT ![conn[c].pairId].clipboardHistory = KeepLast(Append(@, entry))]
     /\ out' = sendToOther(conn, pair, conn[c].clientType,
                           ClipFrame(conn[c].deviceName, ContentOrEmpty(content)))
     /\ UNCHANGED <<registry, conn>>

\* a frame read from socket c: JSON.parse, then pair.lastActivity = now
Message(c) ==
  /\ CanReceive(c)
  /\ lastActivity' = [lastActivity EXCEPT ![conn[c].pairId] = now]
  /\ UNCHANGED <<now, paired>>

\* one action per frame type
Clipboard(c, content) ==
  /\ Message(c)
  /\ Len(arrived[conn[c].pairId]) \in ClipLengths
  /\ ClipboardHandler(c, content)
  /\ arrived' = [arrived EXCEPT ![conn[c].pairId] =
                   Append(@, [from |-> conn[c].deviceName, content |-> content])]
  /\ UNCHANGED <<timers, client>>

FileMeta(c, fileId, fileName, totalChunks, totalSize) ==
  /\ Message(c)
  /\ FileMetaHandler(c, fileId, fileName, totalChunks, totalSize)
  /\ UNCHANGED <<arrived, timers, client>>

FileChunk(c, fileId, chunkIndex) ==
  /\ Message(c)
  /\ FileChunkHandler(c, fileId, chunkIndex)
  /\ UNCHANGED <<arrived, timers, client>>

FileChunkAck(c, fileId, chunkIndex) ==
  /\ Message(c)
  /\ FileChunkAckHandler(c, fileId, chunkIndex)
  /\ UNCHANGED <<arrived, timers, client>>

FileComplete(c, fileId) ==
  /\ Message(c)
  /\ FileCompleteHandler(c, fileId)
  /\ UNCHANGED <<arrived, timers, client>>

PauseFile(c, fileId) ==
  /\ Message(c)
  /\ PauseFileHandler(c, fileId)
  /\ UNCHANGED <<arrived, timers, client>>

ResumeFile(c, fileId) ==
  /\ Message(c)
  /\ ResumeFileHandler(c, fileId)
  /\ UNCHANGED <<arrived, timers, client>>

RequestChunks(c, fileId, chunks) ==
  /\ Message(c)
  /\ RequestChunksHandler(c, fileId, chunks)
  /\ UNCHANGED <<arrived, timers, client>>

FileMissingChunks(c, fileId, chunks) ==
  /\ Message(c)
  /\ FileMissingChunksHandler(c, fileId, chunks)
  /\ UNCHANGED <<arrived, timers, client>>

\* ------------------------------------------------------ ws.on("close") ----
\* the peer closes, or the transport is lost or terminated: no frame is read
\* from the socket any more, and its close event is pending (a socket the
\* server closed itself is already in that position whenever no further frame
\* is read from it)
Disconnect(c) ==
  /\ conn[c].state = "open"
  /\ conn' = [conn EXCEPT ![c].state = "lost"]
  /\ out' = <<>>
  /\ UNCHANGED <<registry, sess, now, lastActivity, arrived, paired, timers, client>>

\* a variant that pauses the records of either side
PauseAllOnClose(files, clientType) ==
  [f \in DOMAIN files |->
     IF files[f].status = "sending"
     THEN [files[f] EXCEPT !.status = "paused"] ELSE files[f]]

\* for (const f of Object.values(p.files)): pause the records this side sends
PauseOnClose(files, clientType) ==
  [f \in DOMAIN files |->
     IF files[f].senderType = clientType /\ files[f].status = "sending"
     THEN [files[f] EXCEPT !.status = "paused"] ELSE files[f]]

RECURSIVE PausedFramesFrom(_, _, _, _, _)
PausedFramesFrom(cn, files, clientType, other, k) ==
  IF k > Len(FileOrder) THEN <<>>
  ELSE LET fid == FileOrder[k]
           rest == PausedFramesFrom(cn, files, clientType, other, k + 1)
       IN IF fid \in DOMAIN files /\ files[fid].senderType = clientType /\ files[fid].status = "sending"
          THEN safeSend(cn, other, FileFrame("file_paused", fid, "Sender disconnected")) \o rest
          ELSE rest

\* cleanupPair(pairId), called with both slots of the pair already null
\* or, from the close handler, after p[clientType] = null
cleanupPair(cn, pair) == CloseSock(CloseSock(cn, pair.slot["pc"]), pair.slot["app"])

\* the socket c is closed for good: a pending callback that holds it holds a
\* socket that is not open, which is what NoConn is to safeSend
Released(ts, c) ==
  {[t EXCEPT !.receiver = IF @ = c THEN NoConn ELSE @,
             !.ws = IF @ = c THEN NoConn ELSE @] : t \in ts}

CloseEvent(c) ==
  /\ conn[c].state \in {"closing", "lost"}
  /\ timers' = Released(timers, c)
  /\ UNCHANGED <<now, lastActivity, arrived, paired, client>>
  /\ LET pairId == conn[c].pairId
         clientType == conn[c].clientType
         \* clearInterval(staleTimer), and the socket object is gone
         cn1 == [conn EXCEPT ![c] = NoSocket]
     IN IF pairId \notin registry
        THEN conn' = cn1 /\ out' = <<>> /\ UNCHANGED <<registry, sess>>
        ELSE LET p == sess[pairId]
                 other == p.slot[getOtherType(clientType)]
                 p1 == [p EXCEPT !.files = PauseOnClose(@, clientType),
                                 !.slot[clientType] = NoConn]
                 empty == p1.slot["pc"] = NoConn /\ p1.slot["app"] = NoConn
             IN /\ out' = safeSend(cn1, other, TextFrame("status", "disconnected"))
                          \o safeSend(cn1, other, TextFrame("peer_disconnected", clientType))
                          \o PausedFramesFrom(cn1, p.files, clientType, other, 1)
                /\ sess' = [sess EXCEPT ![pairId] = p1]
                /\ conn' = IF empty THEN cleanupPair(cn1, p1) ELSE cn1
                /\ registry' = IF empty THEN registry \ {pairId} ELSE registry

\* the timer armed when a record completes (setTimeout in the file_chunk_ack
\* handler) fires: it removes the record if its status is still completed and
\* does nothing otherwise. Only the file_chunk_ack handler sets that status
\* and it arms a timer each time, so a timer is pending whenever a record is
\* completed.
\* The delay of this timer is left open: it may fire at any time.
CompletedCleanup(pairId, fileId) ==
  /\ pairId \in DOMAIN sess
  /\ fileId \in DOMAIN sess[pairId].files
  /\ sess[pairId].files[fileId].status = "completed"
  /\ sess' = [sess EXCEPT ![pairId].files = DelFile(@, fileId)]
  /\ out' = <<>>
  /\ UNCHANGED <<registry, conn, now, lastActivity, arrived, paired, timers, client>>

\* ------------------------------------------------------------- timers ----
\* the staleTimer of socket c fires: every STALE_INTERVAL from the connection
\* on, until the close event of c clears it
StaleTimer(c) ==
  /\ conn[c].state # "none"
  /\ conn[c].staleTimer # -1
  /\ conn[c].staleTimer <= now
  /\ UNCHANGED <<now, lastActivity, arrived, paired, timers, client>>
  /\ out' = <<>>
  /\ LET pairId == conn[c].pairId
         cn1 == [conn EXCEPT ![c].staleTimer = now + STALE_INTERVAL]
     IN IF pairId \notin registry
        THEN conn' = cn1 /\ UNCHANGED <<registry, sess>>
        ELSE LET p == sess[pairId]
                 stale == {f \in DOMAIN p.files :
                             /\ now - p.files[f].lastActivity > FILE_CLEANUP_TIMEOUT
                             /\ p.files[f].status # "completed"}
                 p1 == [p EXCEPT !.files = [f \in (DOMAIN p.files) \ stale |-> p.files[f]]]
                 idle == /\ p1.slot["pc"] = NoConn /\ p1.slot["app"] = NoConn
                         /\ now - lastActivity[pairId] > PAIR_CLEANUP_TIMEOUT
             IN /\ sess' = [sess EXCEPT ![pairId] = p1]
                /\ conn' = IF idle THEN cleanupPair(cn1, p1) ELSE cn1
                /\ registry' = IF idle THEN registry \ {pairId} ELSE registry

\* a minute passes: every timer that is due has fired
Tick ==
  /\ now < MaxTime
  /\ \A c \in Conns : (conn[c].state # "none" /\ conn[c].staleTimer # -1) => conn[c].staleTimer > now
  /\ \A t \in timers : t.kind = "cleanup" => t.due > now
  /\ now' = now + 1
  /\ out' = <<>>
  /\ UNCHANGED <<registry, sess, conn, lastActivity, arrived, paired, timers, client>>

Init ==
  /\ registry = {}
  /\ sess = <<>>
  /\ conn = [c \in Conns |-> NoSocket]
  /\ out = <<>>
  /\ now = 0
  /\ lastActivity = <<>>
  /\ arrived = <<>>
  /\ paired = <<>>
  /\ timers = {}
  /\ client = NoClient

\* the handlers, with the frames' file ids, totalChunks values and chunk
\* indices drawn from the given sets
NextOf(fileIds, totals, indices) ==
  \/ \E p \in PairIds, t \in Tokens : Mint(p, t)
  \/ \E q \in UpgradeInputs : Upgrade(q[1], q[2], q[3], q[4]) /\ UNCHANGED client
  \/ \E c \in Conns, f \in fileIds, n \in MetaNames, t \in totals, z \in MetaSizes :
        FileMeta(c, f, n, t, z)
  \/ \E c \in Conns, f \in fileIds, i \in indices : FileChunk(c, f, i)
  \/ \E c \in Conns, f \in fileIds, i \in indices : FileChunkAck(c, f, i)
  \/ \E c \in Conns, f \in fileIds : FileComplete(c, f)
  \/ \E c \in Conns, f \in fileIds : PauseFile(c, f)
  \/ \E c \in Conns, f \in fileIds : ResumeFile(c, f)
  \/ \E c \in Conns, f \in fileIds, ch \in RequestInputs : RequestChunks(c, f, ch)
  \/ \E c \in Conns, f \in fileIds, ch \in ResendInputs : FileMissingChunks(c, f, ch)
  \/ \E c \in Conns : Disconnect(c)
  \/ \E c \in Conns : CloseEvent(c)
  \/ \E p \in PairIds, f \in fileIds : CompletedCleanup(p, f)

\* one transfer at a time, every chunk index up to the first one out of range;
\* the clock does not move and no clipboard frame is sent
Next == NextOf({"F"}, MetaTotals, ChunkIdx)

Spec == Init /\ [][Next]_vars

\* two file ids, one-chunk files
NextCap == NextOf(FileIds, {0, 1}, {0})

SpecCap == Init /\ [][NextCap]_vars

\* the clock and the timers, with one-chunk files
NextTime ==
  \/ NextOf({"F"}, {1}, {0})
  \/ \E c \in Conns : StaleTimer(c)
  \/ Tick

SpecTime == Init /\ [][NextTime]_vars

\* the tokens GET /pair draws when an id is drawn a second time
MintTokens == Tokens \cup {"t2"}

\* the state after GET /pair, the connection of a desktop and n clipboard
\* frames "a" from it
AfterClips(n) ==
  /\ registry = {"p1"}
  /\ sess = [p \in {"p1"} |->
               [NewPair("t1", 0) EXCEPT
                  !.slot["pc"] = 1,
                  !.clipboardHistory = [k \in 1..n |-> [from |-> "desk", content |-> "a", timestamp |-> 0]]]]
  /\ conn = [c \in Conns |->
               IF c = 1
               THEN [state |-> "open", pairId |-> "p1", clientType |-> "pc",
                     deviceName |-> "desk", staleTimer |-> STALE_INTERVAL, isAlive |-> TRUE]
               ELSE NoSocket]
  /\ out = <<>>
  /\ now = 0
  /\ lastActivity = [p \in {"p1"} |-> 0]
  /\ arrived = [p \in {"p1"} |-> [k \in 1..n |-> [from |-> "desk", content |-> "a"]]]
  /\ paired = [p \in {"p1"} |-> FALSE]
  /\ timers = {}
  /\ client = NoClient

\* the start of the server, or a history one entry short of the limit
InitRelay == Init \/ AfterClips(HISTORY_LIMIT - 1)

\* the upgrade requests with the credentials of the session minted first
RelayUpgrades == {"/connect"} \X PairIds \X Tokens \X Roles

\* minting, connecting and the clipboard relay, the clock stopped
NextRelay ==
  \/ \E p \in PairIds, t \in MintTokens : Mint(p, t)
  \/ \E q \in RelayUpgrades : Upgrade(q[1], q[2], q[3], q[4]) /\ UNCHANGED client
  \/ \E c \in Conns, x \in ClipContents : Clipboard(c, x)
  \/ \E c \in Conns : Disconnect(c)
  \/ \E c \in Conns : CloseEvent(c)

SpecRelay == InitRelay /\ [][NextRelay]_vars

\* file_meta frames at the size budget: 81920 chunks of 64 KiB are 5 GiB
BudgetTotals == {81920, 81921}
BudgetSizes == {NoSize, MAX_FILE_SIZE + 1}

\* minting, connecting, clipboard frames and file_meta frames of large files
NextBudget ==
  \/ \E p \in PairIds, t \in Tokens : Mint(p, t)
  \/ \E q \in RelayUpgrades : Upgrade(q[1], q[2], q[3], q[4]) /\ UNCHANGED client
  \/ \E c \in Conns, x \in ClipContents : Clipboard(c, x)
  \/ \E c \in Conns, f \in FileIds, n \in MetaNames, t \in BudgetTotals, z \in BudgetSizes :
        FileMeta(c, f, n, t, z)

SpecBudget == Init /\ [][NextBudget]_vars

\* --------------------------------------------------------- raw frames ----
\* The text of a frame as a sequence of tokens: the braces, the colon, and "s"
\* for a string literal. The JSON texts over these tokens are a string and
\* the objects with no member or with one member whose value is a JSON text.
JsonTokens == {"{", "}", "s", ":"}

RECURSIVE JsonTextsTo(_)
JsonTextsTo(depth) ==
  IF depth = 0 THEN {<<"s">>, <<"{", "}">>}
  ELSE JsonTextsTo(depth - 1)
       \cup {<<"{", "s", ":">> \o v \o <<"}">> : v \in JsonTextsTo(depth - 1)}

JsonTexts == JsonTextsTo(MaxDepth - 1)

\* the frames tried: a JSON text, a JSON text cut short, or one with a token
\* after its end
RawFrames ==
  UNION {{SubSeq(t, 1, n) : n \in 0..Len(t)} : t \in JsonTexts}
  \cup {t \o <<x>> : t \in JsonTexts, x \in JsonTokens}

NoParse == [ok |-> FALSE, rest |-> <<>>]

\* the parser reads one value at the start of s; rest is what follows it
RECURSIVE ParseValue(_)
ParseValue(s) ==
  IF s = <<>> THEN NoParse
  ELSE IF Head(s) = "s" THEN [ok |-> TRUE, rest |-> Tail(s)]
  ELSE IF Head(s) # "{" THEN NoParse
  ELSE IF Len(s) >= 2 /\ s[2] = "}" THEN [ok |-> TRUE, rest |-> SubSeq(s, 3, Len(s))]
  ELSE IF Len(s) >= 3 /\ s[2] = "s" /\ s[3] = ":"
  THEN LET v == ParseValue(SubSeq(s, 4, Len(s)))
       IN IF v.ok /\ v.rest # <<>> /\ Head(v.rest) = "}"
          THEN [ok |-> TRUE, rest |-> Tail(v.rest)]
          ELSE NoParse
  ELSE NoParse

\* a parser that stops at the end of the first value and ignores what follows
JSONparseLoose(raw) == ParseValue(raw).ok

\* JSON.parse(raw) returns (TRUE) or throws a SyntaxError (FALSE)
JSONparse(raw) == ParseValue(raw).ok /\ ParseValue(raw).rest = <<>>

\* a text frame of RawFrames is read from socket c: a text that does not parse
\* is logged and the handler returns; one that parses has no type the handler
\* knows, so the handler sets pair.lastActivity and falls through to its end
RawFrame(c, raw) ==
  /\ CanReceive(c)
  /\ lastActivity' = IF JSONparse(raw)
                     THEN [lastActivity EXCEPT ![conn[c].pairId] = now]
                     ELSE lastActivity
  /\ out' = <<>>
  /\ client' = [client EXCEPT !.raw = raw]
  /\ UNCHANGED <<registry, sess, conn, now, arrived, paired, timers>>

\* the state a minute after GET /pair, the connection of a desktop and one
\* clipboard frame from it: the stale timer of the connection has fired once
InitRaw ==
  /\ registry = {"p1"}
  /\ sess = [p \in {"p1"} |->
               [NewPair("t1", 0) EXCEPT
                  !.slot["pc"] = 1,
                  !.clipboardHistory = <<[from |-> "desk", content |-> "a", timestamp |-> 0]>>]]
  /\ conn = [c \in Conns |->
               IF c = 1
               THEN [state |-> "open", pairId |-> "p1", clientType |-> "pc",
                     deviceName |-> "desk", staleTimer |-> 2 * STALE_INTERVAL, isAlive |-> TRUE]
               ELSE NoSocket]
  /\ out = <<>>
  /\ now = STALE_INTERVAL
  /\ lastActivity = [p \in {"p1"} |-> 0]
  /\ arrived = [p \in {"p1"} |-> <<[from |-> "desk", content |-> "a"]>>]
  /\ paired = [p \in {"p1"} |-> FALSE]
  /\ timers = {}
  /\ client = NoClient

\* connecting, text frames that parse or not, file_meta frames and
\* disconnections, the clock stopped
NextRaw ==
  \/ \E q \in RelayUpgrades : Upgrade(q[1], q[2], q[3], q[4]) /\ UNCHANGED client
  \/ \E c \in Conns, raw \in RawFrames : RawFrame(c, raw)
  \/ \E c \in Conns : FileMeta(c, "F", "x.bin", 1, NoSize)
  \/ \E c \in Conns : Disconnect(c)
  \/ \E c \in Conns : CloseEvent(c)

SpecRaw == InitRaw /\ [][NextRaw]_vars

\* ------------------------------------------------------- two sessions ----
\* Two sessions side by side. Peer is the socket of the phone of session p1,
\* which stays connected and sends nothing; Far is the socket of the desktop
\* of session p2, which has a clipboard history and a record for the file id
\* the devices of p1 use.
Peer == MaxConns + 1
Far == MaxConns + 2

InitPeers ==
  /\ registry = {"p1", "p2"}
  /\ sess = [p \in {"p1", "p2"} |->
               IF p = "p1"
               THEN [NewPair("t1", 0) EXCEPT !.slot["app"] = Peer]
               ELSE [NewPair("t2", 0) EXCEPT
                       !.slot["pc"] = Far,
                       !.clipboardHistory = <<[from |-> "desk", content |-> "a", timestamp |-> 0]>>,
                       !.files = PutFile(<<>>, "F", NewFile("F", 1, "pc", 0))]]
  /\ conn = [c \in Conns \cup {Peer, Far} |->
               IF c = Peer
               THEN [state |-> "open", pairId |-> "p1", clientType |-> "app",
                     deviceName |-> "", staleTimer |-> STALE_INTERVAL, isAlive |-> TRUE]
               ELSE IF c = Far
               THEN [state |-> "open", pairId |-> "p2", clientType |-> "pc",
                     deviceName |-> "desk", staleTimer |-> STALE_INTERVAL, isAlive |-> TRUE]
               ELSE NoSocket]
  /\ out = <<>>
  /\ now = 0
  /\ lastActivity = [p \in {"p1", "p2"} |-> 0]
  /\ arrived = [p \in {"p1", "p2"} |->
                  IF p = "p1" THEN <<>> ELSE <<[from |-> "desk", content |-> "a"]>>]
  /\ paired = [p \in {"p1", "p2"} |-> FALSE]
  /\ timers = {}
  /\ client = NoClient

\* the step reads a frame from socket c
FrameFrom(c) ==
  \/ Clipboard(c, "a")
  \/ FileMeta(c, "F", "x.bin", 1, NoSize)
  \/ FileChunk(c, "F", 0)
  \/ FileChunkAck(c, "F", 0)
  \/ FileComplete(c, "F")
  \/ PauseFile(c, "F")
  \/ ResumeFile(c, "F")
  \/ RequestChunks(c, "F", <<0>>)
  \/ FileMissingChunks(c, "F", <<0>>)

\* connections to p1, frames of every type in p1, pause_file and resume_file
\* frames in p2, disconnections
NextPeers ==
  \/ \E q \in RelayUpgrades : Upgrade(q[1], q[2], q[3], q[4]) /\ UNCHANGED client
  \/ \E c \in Conns : CanReceive(c) /\ FrameFrom(c)
  \/ PauseFile(Far, "F")
  \/ ResumeFile(Far, "F")
  \/ \E c \in Conns : Disconnect(c)
  \/ \E c \in Conns \cup {Peer} : CloseEvent(c)
  \/ CompletedCleanup("p1", "F")

SpecPeers == InitPeers /\ [][NextPeers]_vars

\* ------------------------------------------------------------ devices ----
\* The two devices of a session, as far as the scenarios drive them. A device
\* keeps its state over its connections: unsent are the chunks
\* <<role, fileId, chunkIndex>> the device of that role still has to send,
\* unacked the ones it has received and not yet acknowledged, sent and got
\* list the file_chunk frames <<fileId, chunkIndex>> that were sent by the
\* sending device and written to the receiving one, in order, and notice[f]
\* is the reason of the last file_paused frame for f that was written to a
\* connection of the role that sends f, asked holds f if a
\* file_missing_chunks frame for f has arrived since, and done holds
\* <<role, f>> if the device of that role has been sent file_complete for f
\* since f was announced. raw is the text of the last frame a device sent
\* that was read as a text of RawFrames (see the section raw frames).
ChunksOf(role, fileId, chunks) ==
  {<<role, fileId, chunks[k]>> : k \in DOMAIN chunks}

\* the device behind connection e.to reads the frame e.frame
Absorb(cl, e, cn, pair) ==
  IF e.to = NoConn THEN cl
  ELSE LET role == cn[e.to].clientType
           f == e.frame.fileId
       IN IF e.frame.type = "file_chunk"
          THEN [cl EXCEPT !.unacked = @ \cup {<<role, f, e.frame.chunkIndex>>},
                          !.got = Append(@, <<f, e.frame.chunkIndex>>)]
          ELSE IF e.frame.type = "file_missing_chunks"
          THEN [cl EXCEPT !.unsent = @ \cup ChunksOf(role, f, e.frame.chunks),
                          !.asked = @ \cup {f}]
          ELSE IF e.frame.type = "file_paused" /\ f \in DOMAIN pair.files
                  /\ pair.files[f].senderType = role
          THEN [cl EXCEPT !.notice[f] = e.frame.text, !.asked = @ \ {f}]
          ELSE IF e.frame.type = "file_complete"
          THEN [cl EXCEPT !.done = @ \cup {<<role, f>>}]
          ELSE cl

\* the devices read the frames o, in order
RECURSIVE React(_, _, _, _)
React(cl, o, cn, pair) ==
  IF o = <<>> THEN cl ELSE React(Absorb(cl, Head(o), cn, pair), Tail(o), cn, pair)

\* an upgrade request of a device; the devices read what the connection
\* handler writes
Bind(q) ==
  /\ Upgrade(q[1], q[2], q[3], q[4])
  /\ client' = IF q[2] \in DOMAIN sess' THEN React(client, out', conn', sess'[q[2]]) ELSE client

\* a device announces a file: file_meta, and every chunk of the file is to be
\* sent if the server did not answer with an error
Announce(c, fileId, totalChunks) ==
  /\ conn[c].state = "open"
  /\ Message(c)
  /\ FileMetaHandler(c, fileId, "x.bin", totalChunks, NoSize)
  /\ client' = IF \E k \in DOMAIN out' : out'[k].frame.type = "error"
               THEN client
               ELSE [client EXCEPT !.unsent = @ \cup {<<conn[c].clientType, fileId, i>> : i \in 0..(totalChunks - 1)},
                                   !.done = {d \in @ : d[2] # fileId}]
  /\ UNCHANGED <<arrived, timers>>

\* the sending device sends a chunk it has to send
Sends(c, fileId, chunkIndex) ==
  /\ conn[c].state = "open"
  /\ <<conn[c].clientType, fileId, chunkIndex>> \in client.unsent
  /\ Len(client.sent) < MaxSends

Sent(cl, c, fileId, chunkIndex) ==
  [cl EXCEPT !.unsent = @ \ {<<conn[c].clientType, fileId, chunkIndex>>},
             !.sent = Append(@, <<fileId, chunkIndex>>)]

\* file_chunk, where receiver.send() returns if attemptSend is reached
SendChunk(c, fileId, chunkIndex) ==
  /\ Sends(c, fileId, chunkIndex)
  /\ Message(c)
  /\ FileChunkHandler(c, fileId, chunkIndex)
  /\ client' = React(Sent(client, c, fileId, chunkIndex), out', conn', sess'[conn[c].pairId])
  /\ UNCHANGED <<arrived, timers>>

\* the pending call attemptSend(attemptsLeft) of setTimeout, with the variables
\* of its closure: the record fileId of the pair object pairId, the chunk, the
\* socket receiver, and the socket ws (of role clientType) the chunk came from
RetryTimerOf(pairId, fileId, chunkIndex, attemptsLeft, receiver, ws, clientType) ==
  [kind |-> "retry", pairId |-> pairId, fileId |-> fileId, chunkIndex |-> chunkIndex,
   attemptsLeft |-> attemptsLeft, receiver |-> receiver, ws |-> ws,
   clientType |-> clientType, due |-> -1]

\* the file_chunk handler reaches attemptSend()
ReachesAttemptSend(c, fileId, chunkIndex) ==
  /\ fileId \in DOMAIN PairOf(c).files
  /\ PairOf(c).files[fileId].status # "paused"
  /\ IsOpen(conn, PairOf(c).slot[getOtherType(conn[c].clientType)])
  /\ chunkIndex \notin PairOf(c).files[fileId].receivedMap

\* catch (err) { if (attemptsLeft > 0) setTimeout(...) else ... }
Exhausted(attemptsLeft) == ~(attemptsLeft > 0)

\* the catch branch of attemptSend(attemptsLeft) for the closure of timer t
\* (pending or not): another attempt is scheduled, or the record is paused and
\* both sides are told. The record is the one the closure holds; it is under
\* its fileId as long as no file_meta has put another one there.
CatchOf(t, attemptsLeft) ==
  LET pair == sess[t.pairId]
      frame == FileFrame("file_paused", t.fileId, "Relay failed")
  IN IF ~Exhausted(attemptsLeft)
     THEN /\ timers' = (timers \ {t}) \cup {[t EXCEPT !.attemptsLeft = attemptsLeft - 1]}
          /\ out' = <<>>
          /\ UNCHANGED sess
     ELSE /\ timers' = timers \ {t}
          /\ sess' = IF t.fileId \in DOMAIN pair.files
                     THEN [sess EXCEPT ![t.pairId].files[t.fileId].status = "paused"]
                     ELSE sess
          /\ out' = safeSend(conn, t.ws, frame) \o sendToOther(conn, pair, t.clientType, frame)

\* file_chunk, where the handler reaches attemptSend and receiver.send() throws
SendChunkThrows(c, fileId, chunkIndex) ==
  /\ Sends(c, fileId, chunkIndex)
  /\ Message(c)
  /\ ReachesAttemptSend(c, fileId, chunkIndex)
  /\ CatchOf(RetryTimerOf(conn[c].pairId, fileId, chunkIndex, CHUNK_RETRY_LIMIT,
                          PairOf(c).slot[getOtherType(conn[c].clientType)], c, conn[c].clientType),
             CHUNK_RETRY_LIMIT)
  /\ client' = React(Sent(client, c, fileId, chunkIndex), out', conn, sess'[conn[c].pairId])
  /\ UNCHANGED <<registry, conn, arrived>>

\* the timer t fires: attemptSend(t.attemptsLeft). receiver.send() writes the
\* frame and returns, or throws; on a socket that is no longer open it throws
\* or returns without writing, as the WebSocket library has it.
RetryTimer(t, throws) ==
  /\ t.kind = "retry"
  /\ IF throws
     THEN CatchOf(t, t.attemptsLeft)
     ELSE /\ timers' = timers \ {t}
          /\ out' = safeSend(conn, t.receiver,
                             Frame("file_chunk", t.fileId, t.chunkIndex,
                                   IF t.fileId \in DOMAIN sess[t.pairId].files
                                   THEN sess[t.pairId].files[t.fileId].totalChunks ELSE -1,
                                   -1, <<>>, ""))
          /\ UNCHANGED sess
  /\ client' = React(client, out', conn, sess'[t.pairId])
  /\ UNCHANGED <<registry, conn, now, lastActivity, arrived, paired>>

\* the callback of setTimeout(..., FILE_CLEANUP_TIMEOUT) for the record fileId
\* of the pair object pairId, due at the time due
CleanupTimerOf(pairId, fileId, due) ==
  [kind |-> "cleanup", pairId |-> pairId, fileId |-> fileId, chunkIndex |-> -1,
   attemptsLeft |-> -1, receiver |-> NoConn, ws |-> NoConn, clientType |-> "", due |-> due]

\* the receiving device acknowledges a chunk it has received; the timer the
\* handler arms when the record completes is kept with its due time
AckChunk(c, fileId, chunkIndex) ==
  /\ conn[c].state = "open"
  /\ <<conn[c].clientType, fileId, chunkIndex>> \in client.unacked
  /\ Message(c)
  /\ FileChunkAckHandler(c, fileId, chunkIndex)
  /\ timers' = IF /\ fileId \in DOMAIN PairOf(c).files
                  /\ AckCompletes(AckRecord(PairOf(c).files[fileId], chunkIndex, now))
               THEN timers \cup {CleanupTimerOf(conn[c].pairId, fileId, now + FILE_CLEANUP_TIMEOUT)}
               ELSE timers
  /\ client' = React([client EXCEPT !.unacked = @ \ {<<conn[c].clientType, fileId, chunkIndex>>}],
                     out', conn', sess'[conn[c].pairId])
  /\ UNCHANGED arrived

\* the timer t fires when it is due: if (pair.files[fileId]?.status ===
\* "completed") delete pair.files[fileId]
CleanupTimer(t) ==
  /\ t.kind = "cleanup"
  /\ t.due <= now
  /\ LET files == sess[t.pairId].files
     IN sess' = IF t.fileId \in DOMAIN files /\ files[t.fileId].status = "completed"
                THEN [sess EXCEPT ![t.pairId].files = DelFile(@, t.fileId)]
                ELSE sess
  /\ timers' = timers \ {t}
  /\ out' = <<>>
  /\ UNCHANGED <<registry, conn, now, lastActivity, arrived, paired, client>>

\* the chunk sizes of the files the devices announce
FlowTotals == {1, MaxChunks}

\* a transfer with send failures, retries and disconnections, the clock stopped
NextRetry ==
  \/ \E p \in PairIds, t \in Tokens : p \notin DOMAIN sess /\ Mint(p, t)
  \/ \E q \in RelayUpgrades : Bind(q)
  \/ \E c \in Conns, n \in FlowTotals :
        conn[c].state = "open" /\ Announce(c, "F", n)
  \/ \E c \in Conns, i \in ChunkIdx : SendChunk(c, "F", i)
  \/ \E c \in Conns, i \in ChunkIdx : SendChunkThrows(c, "F", i)
  \/ \E t \in timers, throws \in BOOLEAN : RetryTimer(t, throws)
  \/ \E c \in Conns, i \in ChunkIdx : AckChunk(c, "F", i)
  \/ \E c \in Conns : Disconnect(c)
  \/ \E c \in Conns : CloseEvent(c)

SpecRetry == Init /\ [][NextRetry]_vars

\* a device connects to a side that is not connected
Join(q) == q[2] \in DOMAIN sess /\ sess[q[2]].slot[q[4]] = NoConn /\ Bind(q)

\* a device announces a file when both sides are connected, early enough for
\* the clock and with its chunks within the frames the devices send
Offer(c, fileId, totalChunks) ==
  /\ \A r \in Roles : IsOpen(conn, PairOf(c).slot[r])
  /\ fileId \notin DOMAIN PairOf(c).files
  /\ now + FILE_CLEANUP_TIMEOUT <= MaxTime
  /\ Len(client.sent) + totalChunks <= MaxSends
  /\ Announce(c, fileId, totalChunks)

\* a minute passes once the devices have sent and acknowledged what they have
\* to: the devices are quicker than the clock
Wait == client.unsent = {} /\ client.unacked = {} /\ Tick

\* a transfer between two devices that stay connected, no send failing, with
\* the clock and the timers
NextFlow ==
  \/ \E p \in PairIds, t \in Tokens : p \notin DOMAIN sess /\ Mint(p, t)
  \/ \E q \in RelayUpgrades : Join(q)
  \/ \E c \in Conns, n \in FlowTotals : conn[c].state = "open" /\ Offer(c, "F", n)
  \/ \E c \in Conns, i \in ChunkIdx : SendChunk(c, "F", i)
  \/ \E c \in Conns, i \in ChunkIdx : AckChunk(c, "F", i)
  \/ \E c \in Conns : StaleTimer(c)
  \/ \E t \in timers : CleanupTimer(t)
  \/ Wait

\* the devices send and acknowledge, the timers fire and the clock runs
FairFlow ==
  /\ WF_vars(\E c \in Conns, i \in ChunkIdx : SendChunk(c, "F", i))
  /\ WF_vars(\E c \in Conns, i \in ChunkIdx : AckChunk(c, "F", i))
  /\ WF_vars(\E c \in Conns : StaleTimer(c))
  /\ WF_vars(\E t \in timers : CleanupTimer(t))
  /\ WF_vars(Wait)

SpecFlow == Init /\ [][NextFlow]_vars /\ FairFlow

\* a device announces a file whose id has no record or a completed one, both
\* sides connected, early enough for the clock and within the frames sent
Reoffer(c, fileId, totalChunks) ==
  /\ \A r \in Roles : IsOpen(conn, PairOf(c).slot[r])
  /\ fileId \in DOMAIN PairOf(c).files => PairOf(c).files[fileId].status = "completed"
  /\ client.unsent = {} /\ client.unacked = {}
  /\ now + FILE_CLEANUP_TIMEOUT + STALE_INTERVAL < MaxTime
  /\ Len(client.sent) + totalChunks <= MaxSends
  /\ Announce(c, fileId, totalChunks)

\* the devices give a transfer up: nothing more is sent or acknowledged
Abandon ==
  /\ client.unsent # {} \/ client.unacked # {}
  /\ client' = [client EXCEPT !.unsent = {}, !.unacked = {}]
  /\ out' = <<>>
  /\ UNCHANGED <<registry, sess, conn, now, lastActivity, arrived, paired, timers>>

\* transfers between two devices that stay connected, which finish a transfer
\* or give it up and may use a file id again, with the clock and the timers
NextClean ==
  \/ \E p \in PairIds, t \in Tokens : p \notin DOMAIN sess /\ Mint(p, t)
  \/ \E q \in RelayUpgrades : Join(q)
  \/ \E c \in Conns, n \in FlowTotals : conn[c].state = "open" /\ Reoffer(c, "F", n)
  \/ \E c \in Conns, i \in ChunkIdx : SendChunk(c, "F", i)
  \/ \E c \in Conns, i \in ChunkIdx : AckChunk(c, "F", i)
  \/ Abandon
  \/ \E c \in Conns : StaleTimer(c)
  \/ \E t \in timers : CleanupTimer(t)
  \/ Wait

\* the timers fire and the clock runs
FairClean ==
  /\ WF_vars(\E c \in Conns : StaleTimer(c))
  /\ WF_vars(\E t \in timers : CleanupTimer(t))
  /\ WF_vars(Wait)
  /\ WF_vars(Abandon)

SpecClean == Init /\ [][NextClean]_vars /\ FairClean

\* ---------------------------------------------------------- heartbeat ----
\* wss.clients: the sockets whose close event has not been handled
Clients == {c \in Conns : conn[c].state # "none"}

\* ws.terminate(): the transport is destroyed; the close event comes later
Terminate(sock) == [sock EXCEPT !.state = "lost"]

\* ws.ping(): the ping frame is written to an OPEN socket only
RECURSIVE PingsTo(_)
PingsTo(n) ==
  IF n = 0 THEN <<>>
  ELSE PingsTo(n - 1)
       \o IF n \in Clients /\ conn[n].isAlive
          THEN safeSend(conn, n, TextFrame("ping", "")) ELSE <<>>

\* a variant of the tick that leaves the flag of a socket as it is
HeartbeatKeepsFlag ==
  /\ Clients # {}
  /\ \A c \in Clients : client.beats[c] < MaxBeats
  /\ conn' = [c \in DOMAIN conn |->
               IF c \in Clients /\ ~conn[c].isAlive THEN Terminate(conn[c]) ELSE conn[c]]
  /\ out' = PingsTo(MaxConns)
  /\ client' = [client EXCEPT !.beats = [c \in Conns |-> IF c \in Clients THEN @[c] + 1 ELSE @[c]]]
  /\ UNCHANGED <<registry, sess, now, lastActivity, arrived, paired, timers>>

\* the heartbeat interval fires: wss.clients.forEach; the ticks each socket has
\* been through are counted
Heartbeat ==
  /\ Clients # {}
  /\ \A c \in Clients : client.beats[c] < MaxBeats
  /\ conn' = [c \in DOMAIN conn |->
               IF c \notin Clients THEN conn[c]
               ELSE IF ~conn[c].isAlive THEN Terminate(conn[c])
               ELSE [conn[c] EXCEPT !.isAlive = FALSE]]
  /\ out' = PingsTo(MaxConns)
  /\ client' = [client EXCEPT !.beats = [c \in Conns |-> IF c \in Clients THEN @[c] + 1 ELSE @[c]]]
  /\ UNCHANGED <<registry, sess, now, lastActivity, arrived, paired, timers>>

\* ws.on("pong"): a pong frame arrives on socket c; one that finds the flag set
\* changes nothing
Pong(c) ==
  /\ CanReceive(c)
  /\ ~conn[c].isAlive
  /\ conn' = [conn EXCEPT ![c].isAlive = TRUE]
  /\ client' = [client EXCEPT !.pongs[c] = @ + 1]
  /\ out' = <<>>
  /\ UNCHANGED <<registry, sess, now, lastActivity, arrived, paired, timers>>

\* a device connects: the ticks and pongs of its socket are counted from here
Attach(q) ==
  /\ Upgrade(q[1], q[2], q[3], q[4])
  /\ client' = IF UpgradeAccepts(q[1], q[2], q[3], q[4])
               THEN [client EXCEPT !.beats[FreeConn] = 0, !.pongs[FreeConn] = 0]
               ELSE client

\* connections, a file announced, the heartbeat and the close events, the
\* clock stopped
NextBeat ==
  \/ \E p \in PairIds, t \in Tokens : p \notin DOMAIN sess /\ Mint(p, t)
  \/ \E q \in RelayUpgrades : Attach(q)
  \/ \E c \in Conns : conn[c].state = "open" /\ FileMeta(c, "F", "x.bin", 1, NoSize)
  \/ Heartbeat
  \/ \E c \in Conns : Pong(c)
  \/ \E c \in Conns : CloseEvent(c)

\* the close event of a socket whose transport is gone is emitted
FairBeat == \A c \in Conns : WF_vars(CloseEvent(c))

SpecBeat == Init /\ [][NextBeat]_vars /\ FairBeat

\* ------------------------------------------------------------- claims ----
\* the frames of o that satisfy P
Frames(o, P(_)) == {k \in DOMAIN o : P(o[k])}

\* the sequence s lists exactly the members of S, each once
ListsExactly(s, S) == Len(s) = Cardinality(S) /\ {s[k] : k \in DOMAIN s} = S

MissingSet(file) == {i \in 0..(file.totalChunks - 1) : i \notin file.receivedMap}

\* C1 (as claimed): a role slot that references an open connection keeps
\* referencing it as long as that connection stays open, that is until the
\* connection itself closes or is replaced; in particular the close event of
\* the connection it replaced does not change the slot.
C1_SlotKeepsNewConnection ==
  [][\A p \in DOMAIN sess, r \in Roles :
       LET c == sess[p].slot[r]
       IN (c # NoConn /\ conn[c].state = "open" /\ conn'[c].state = "open")
          => sess'[p].slot[r] = c]_vars

\* C2 (as claimed): for every file record, receivedChunks is the cardinality of
\* receivedMap and lies between 0 and totalChunks.
C2_ReceivedWithinTotal ==
  \A p \in DOMAIN sess : \A f \in DOMAIN sess[p].files :
    LET file == sess[p].files[f]
    IN /\ file.receivedChunks = Cardinality(file.receivedMap)
       /\ 0 <= file.receivedChunks
       /\ file.receivedChunks <= file.totalChunks

\* C3 (as claimed): a file record is completed if and only if its
\* receivedChunks equals its totalChunks.
C3_CompletedIffAllReceived ==
  \A p \in DOMAIN sess : \A f \in DOMAIN sess[p].files :
    LET file == sess[p].files[f]
    IN (file.status = "completed") <=> (file.receivedChunks = file.totalChunks)

\* the file_chunk frames of o that carry (fileId, chunkIndex) and were written
\* to a connection of the receiver side of the file
ChunkForwards(o, cn, file, chunkIndex) ==
  Cardinality(Frames(o, LAMBDA e : /\ e.frame.type = "file_chunk"
                                   /\ e.frame.fileId = file.fileId
                                   /\ e.frame.chunkIndex = chunkIndex
                                   /\ cn[e.to].clientType = getOtherType(file.senderType)))

\* C4 (as claimed, over any two successive handler runs): for a file that has
\* a record, at most one file_chunk frame carrying a given (fileId, chunkIndex)
\* is emitted to the receiver; a chunk forwarded by one handler run is not
\* forwarded again by the next.
C4_NoDuplicateForward ==
  [][\A p \in DOMAIN sess : \A f \in DOMAIN sess[p].files : \A i \in ChunkIdx :
       (f \in DOMAIN sess'[p].files /\ sess'[p].files[f].senderType = sess[p].files[f].senderType)
       => ChunkForwards(out, conn, sess[p].files[f], i)
          + ChunkForwards(out', conn', sess[p].files[f], i) <= 1]_vars

\* C5 (as claimed): in every session at most MAX_SIMULTANEOUS_FILES records are
\* in status sending or paused.
C5_ActiveWithinCap ==
  \A p \in DOMAIN sess : ActiveCount(sess[p]) <= MAX_SIMULTANEOUS_FILES

\* the file_complete frames of o for fileId written to connection c
CompletesTo(o, c, fileId) ==
  Cardinality(Frames(o, LAMBDA e : /\ e.to = c
                                   /\ e.frame.type = "file_complete"
                                   /\ e.frame.fileId = fileId))

\* the step observes the totalChunks-th distinct acknowledgement of the record
ObservesLastAck(old, new) ==
  /\ new.totalChunks = old.totalChunks
  /\ old.receivedChunks < old.totalChunks
  /\ new.receivedChunks = old.totalChunks
  /\ new.receivedMap # old.receivedMap

\* C6 (as claimed, at the moment of completion): in the step that observes the
\* totalChunks-th distinct file_chunk_ack of a file, each side that is
\* connected is sent file_complete for that file exactly once.
C6_CompleteOncePerSide ==
  [][\A p \in DOMAIN sess : \A f \in DOMAIN sess[p].files :
       (f \in DOMAIN sess'[p].files /\ ObservesLastAck(sess[p].files[f], sess'[p].files[f]))
       => \A r \in Roles :
            IsOpen(conn', sess'[p].slot[r]) => CompletesTo(out', sess'[p].slot[r], f) = 1]_vars

\* the file_missing_chunks frames of o for fileId
Requests(o, fileId) ==
  Frames(o, LAMBDA e : e.frame.type = "file_missing_chunks" /\ e.frame.fileId = fileId)

\* C7 (as claimed): every handled resume_file for a record that is not
\* completed sends the sender side a file_missing_chunks frame whose chunks is
\* exactly {0..totalChunks-1} minus receivedMap.
C7_ResumeAlwaysRequests ==
  [][\A c \in Conns : CanReceive(c) => \A f \in DOMAIN PairOf(c).files :
       (PairOf(c).files[f].status # "completed" /\ ResumeFile(c, f))
       => \E k \in Requests(out', f) :
            /\ out'[k].to \in Conns
            /\ conn[out'[k].to].clientType = PairOf(c).files[f].senderType
            /\ ListsExactly(out'[k].frame.chunks, MissingSet(PairOf(c).files[f]))]_vars

\* C7 (amended): a handled resume_file for a record that is not completed sends
\* exactly one file_missing_chunks frame, to the connection in the sender's
\* slot and listing exactly {0..totalChunks-1} minus receivedMap, when that
\* connection is open and the set is not empty; otherwise it sends none.
C7_ResumeLaw ==
  [][\A c \in Conns : CanReceive(c) => \A f \in DOMAIN PairOf(c).files :
       (PairOf(c).files[f].status # "completed" /\ ResumeFile(c, f))
       => LET file == PairOf(c).files[f]
              senderWs == PairOf(c).slot[file.senderType]
              reqs == Requests(out', f)
          IN IF IsOpen(conn, senderWs) /\ MissingSet(file) # {}
             THEN \E k \in reqs : /\ reqs = {k}
                                  /\ out'[k].to = senderWs
                                  /\ ListsExactly(out'[k].frame.chunks, MissingSet(file))
             ELSE reqs = {}]_vars

\* a resume that asked the sender for a proper, non-empty part of the file
C7_Witness ==
  \E k, j \in DOMAIN out :
    /\ out[j].frame.type = "file_resumed"
    /\ out[k].frame.type = "file_missing_chunks"
    /\ out[k].frame.fileId = out[j].frame.fileId
    /\ Len(out[k].frame.chunks) = 1

\* the credentials the law asks of an upgrade request
ValidCredentials(path, pairId, token, type) ==
  /\ path \in {"/connect", "/connect/"}
  /\ pairId # "" /\ token # "" /\ type # ""
  /\ pairId \in registry
  /\ token = sess[pairId].token
  /\ type \in {"pc", "app"}

\* C8 (as claimed): whenever a connection is bound while a record of the
\* session is paused, the sender side of each such record is sent a
\* file_missing_chunks frame listing exactly {0..totalChunks-1} minus receivedMap.
C8_AutoResumeOnEveryBind ==
  [][\A q \in UpgradeInputs :
       (Upgrade(q[1], q[2], q[3], q[4]) /\ ValidCredentials(q[1], q[2], q[3], q[4]))
       => \A f \in DOMAIN sess[q[2]].files :
            sess[q[2]].files[f].status = "paused"
            => \E k \in Requests(out', f) :
                 /\ out'[k].to \in Conns
                 /\ conn'[out'[k].to].clientType = sess[q[2]].files[f].senderType
                 /\ ListsExactly(out'[k].frame.chunks, MissingSet(sess[q[2]].files[f]))]_vars

\* C9: an upgrade request with valid credentials binds a new open connection
\* to the slot of its role; every other upgrade request destroys the transport
\* and changes neither the registry nor any session nor any connection.
C9_CredentialLaw ==
  [][\A q \in UpgradeInputs :
       Upgrade(q[1], q[2], q[3], q[4])
       => IF ValidCredentials(q[1], q[2], q[3], q[4])
          THEN \E c \in Conns :
                 /\ conn[c].state = "none"
                 /\ conn'[c].state = "open"
                 /\ conn'[c].pairId = q[2] /\ conn'[c].clientType = q[4]
                 /\ sess'[q[2]].slot[q[4]] = c
          ELSE /\ out' = Destroyed
               /\ UNCHANGED <<registry, sess, conn, lastActivity>>]_vars

\* a refused upgrade on a session with a bound slot and a file record
C9_Witness ==
  /\ out = Destroyed
  /\ \E p \in registry : /\ \E r \in Roles : sess[p].slot[r] # NoConn
                         /\ DOMAIN sess[p].files # {}

\* C10 (as claimed, the direction "only if"): a file_chunk_ack frame for
\* (fileId, chunkIndex) is written only by a step that handles a file_chunk_ack
\* for that fileId and chunkIndex received from the receiver side of the file,
\* and it is written to the sender side.
C10_AckOnlyFromReceiver ==
  [][\A k \in DOMAIN out' :
       out'[k].frame.type = "file_chunk_ack"
       => \E c \in Conns, f \in FileIds, i \in ChunkIdx :
            /\ FileChunkAck(c, f, i)
            /\ out'[k].frame.fileId = f /\ out'[k].frame.chunkIndex = i
            /\ f \in DOMAIN PairOf(c).files
            /\ conn[c].clientType = getOtherType(PairOf(c).files[f].senderType)
            /\ conn[out'[k].to].clientType = PairOf(c).files[f].senderType]_vars

\* the mint TTL of the claims, 2 min
MintTTL == 2 * STALE_INTERVAL

\* C11 (as claimed): a session that was minted and has never been fully bound
\* is absent from the registry once the mint TTL plus one period of the reaper
\* has elapsed since its mint.
C11_UnpairedExpires ==
  \A p \in registry :
    ~paired[p] => now - sess[p].createdAt <= MintTTL + STALE_INTERVAL

BothEmpty(pair) == pair.slot["pc"] = NoConn /\ pair.slot["app"] = NoConn

\* C12 (as claimed): a session whose two slots are both empty and whose
\* lastActivity is older than PAIR_CLEANUP_TIMEOUT is absent from the registry
\* after the next reaper tick, a session that never had a connection included:
\* no registered session with two empty slots is idle for longer than
\* PAIR_CLEANUP_TIMEOUT plus one period of the reaper.
C12_IdleEmptyReaped ==
  \A p \in registry :
    BothEmpty(sess[p]) => now - lastActivity[p] <= PAIR_CLEANUP_TIMEOUT + STALE_INTERVAL

\* C13 (as claimed): a session leaves the registry only when (a) both slots are
\* empty and it has had no activity for PAIR_CLEANUP_TIMEOUT, or (b) it was
\* never paired and the mint TTL has expired; a session whose two sides have
\* both disconnected stays until PAIR_CLEANUP_TIMEOUT has elapsed.
C13_RemovedOnlyWhenIdle ==
  [][\A p \in registry :
       p \notin registry'
       => \/ BothEmpty(sess'[p]) /\ now - lastActivity[p] > PAIR_CLEANUP_TIMEOUT
          \/ ~paired[p] /\ now - sess[p].createdAt > MintTTL]_vars

\* C14 (as claimed): MintPair never issues a pairId that is the key of a
\* session in the registry: a mint adds exactly one new session and leaves
\* every session that exists unchanged.
C14_MintAddsFreshSession ==
  [][\A p \in PairIds, t \in MintTokens :
       Mint(p, t)
       => /\ p \notin registry
          /\ registry' = registry \cup {p}
          /\ \A q \in registry : sess'[q] = sess[q]]_vars

Min(a, b) == IF a < b THEN a ELSE b

\* C15: in every reachable state the clipboardHistory of a pair object has at
\* most 50 entries and equals the last min(n, 50) of the n clipboard frames
\* received on it, from either side, in arrival order (an entry carries the
\* deviceName of the connection the frame came from and the frame's content,
\* "" when the frame has none).
C15_HistoryIsLastFifty ==
  \A p \in DOMAIN sess :
    LET h == sess[p].clipboardHistory
        n == Len(arrived[p])
        m == Min(n, 50)
    IN /\ Len(h) <= 50
       /\ Len(h) = m
       /\ \A k \in 1..m : /\ h[k].from = arrived[p][n - m + k].from
                           /\ h[k].content = ContentOrEmpty(arrived[p][n - m + k].content)

\* more than 50 frames were received, the last two from different sides
C15_Witness ==
  \E p \in DOMAIN sess :
    /\ Len(arrived[p]) > 50
    /\ Len(sess[p].clipboardHistory) = 50
    /\ sess[p].clipboardHistory[49].from = "desk"
    /\ sess[p].clipboardHistory[50].from = "Unknown"
    /\ sess[p].clipboardHistory[50].content = ""

\* C16: a clipboard frame received from a connection is appended to the
\* history of its session with the deviceName of that connection, and one
\* clipboard frame with that deviceName as from is written to the connection
\* in the slot of the other role when that connection is open, and to no other
\* connection; when that slot is empty or its connection is not open nothing
\* is written, and the entry is appended all the same.
C16_ClipboardRelay ==
  [][\A c \in Conns, x \in ClipContents :
       (CanReceive(c) /\ Clipboard(c, x))
       => LET pair == PairOf(c)
              other == pair.slot[getOtherType(conn[c].clientType)]
              h == sess'[conn[c].pairId].clipboardHistory
          IN /\ Len(h) > 0
             /\ h[Len(h)].from = conn[c].deviceName
             /\ h[Len(h)].content = ContentOrEmpty(x)
             /\ \/ SubSeq(h, 1, Len(h) - 1) = pair.clipboardHistory
                \/ SubSeq(h, 1, Len(h) - 1) = Tail(pair.clipboardHistory)
             /\ out' = IF IsOpen(conn, other)
                       THEN <<[to |-> other,
                               frame |-> ClipFrame(conn[c].deviceName, ContentOrEmpty(x))]>>
                       ELSE <<>>]_vars

\* a frame of the mobile side was forwarded to the desktop
C16_Witness ==
  /\ Len(out) = 1
  /\ out[1].frame.type = "clipboard"
  /\ out[1].frame.from = "Unknown"
  /\ conn[out[1].to].clientType = "pc"

\* the frames of o written to connection c, in order
FramesTo(o, c) == SelectSeq(o, LAMBDA e : e.to = c)

\* C17: the step that binds a connection writes to it, before anything else,
\* the status frame "<role> registered." and then one clipboard frame per
\* entry of clipboardHistory, in the order of the history; being written by
\* the binding step itself they precede every frame of a later step.
C17_ReplayFirstInOrder ==
  [][\A q \in RelayUpgrades :
       (Upgrade(q[1], q[2], q[3], q[4]) /\ ValidCredentials(q[1], q[2], q[3], q[4]))
       => LET c == sess'[q[2]].slot[q[4]]
              h == sess[q[2]].clipboardHistory
              got == FramesTo(out', c)
          IN /\ conn[c].state = "none" /\ conn'[c].state = "open"
             /\ Len(got) >= 1 + Len(h)
             /\ got[1].frame = TextFrame("status", q[4] \o " registered.")
             /\ \A k \in 1..Len(h) :
                  got[1 + k].frame = ClipFrame(h[k].from, h[k].content)]_vars

\* a bind that replayed a full history whose last two entries differ, and then
\* told the new connection that its peer is connected
C17_Witness ==
  /\ Len(out) > 52
  /\ out[1].frame.text = "app registered."
  /\ out[50].frame.type = "clipboard" /\ out[51].frame.type = "clipboard"
  /\ out[50].frame # out[51].frame
  /\ out[50].to = out[1].to /\ out[51].to = out[1].to
  /\ \E k \in 52..Len(out) : out[k].to = out[1].to /\ out[k].frame.type = "status"

\* C18 (as claimed): a file_meta with totalChunks = 81920 and no totalSize, on
\* a session with room for a transfer, is rejected with the File too large
\* error and no file record is created.
C18_Rejects81920 ==
  [][\A c \in Conns, f \in FileIds :
       (CanReceive(c) /\ FileMeta(c, f, "x.bin", 81920, NoSize)
          /\ ActiveCount(PairOf(c)) < MAX_SIMULTANEOUS_FILES)
       => /\ out' = safeSend(conn, c, TextFrame("error", "File too large"))
          /\ sess' = sess]_vars

\* C18 (amended): on a session with room for a transfer, a file_meta with
\* totalChunks = 81920 and no totalSize (exactly 5 GiB) is accepted and its
\* record is created; with totalChunks = 81921 and no totalSize it is
\* rejected: no record is created or changed and the File too large error is
\* the only frame written, to the connection the frame came from if it is open.
C18_BudgetBoundary ==
  [][\A c \in Conns, f \in FileIds, t \in BudgetTotals :
       (CanReceive(c) /\ FileMeta(c, f, "x.bin", t, NoSize)
          /\ ActiveCount(PairOf(c)) < MAX_SIMULTANEOUS_FILES)
       => IF t = 81920
          THEN /\ f \in DOMAIN sess'[conn[c].pairId].files
               /\ sess'[conn[c].pairId].files[f].totalChunks = 81920
               /\ sess'[conn[c].pairId].files[f].status = "sending"
               /\ \A k \in DOMAIN out' : out'[k].frame.type # "error"
          ELSE /\ sess' = sess
               /\ out' = IF conn[c].state = "open"
                         THEN <<[to |-> c, frame |-> TextFrame("error", "File too large")]>>
                         ELSE <<>>]_vars

\* a record of exactly 5 GiB announced to the open receiver
C18_Witness ==
  /\ \E p \in DOMAIN sess : \E f \in DOMAIN sess[p].files : sess[p].files[f].totalChunks = 81920
  /\ Len(out) = 1
  /\ out[1].frame.type = "file_meta" /\ out[1].frame.totalChunks = 81920

\* C19 (as claimed): completed is terminal; a pause_file, resume_file,
\* file_chunk, file_chunk_ack or file_complete frame leaves every completed
\* record of the session in place and completed.
C19_CompletedIsTerminal ==
  [][\A c \in Conns : CanReceive(c) => \A f \in DOMAIN PairOf(c).files :
       PairOf(c).files[f].status = "completed"
       => \A g \in FileIds, i \in ChunkIdx :
            (\/ PauseFile(c, g) \/ ResumeFile(c, g) \/ FileComplete(c, g)
             \/ FileChunk(c, g, i) \/ FileChunkAck(c, g, i))
            => /\ f \in DOMAIN sess'[conn[c].pairId].files
               /\ sess'[conn[c].pairId].files[f].status = "completed"]_vars

\* the capacity conditions of a file_meta: MAX_SIMULTANEOUS_FILES records of
\* the session are sending or paused, or the effective size (totalSize if
\* given, else totalChunks * CHUNK_SIZE) is above MAX_FILE_SIZE
OverCapacity(pair, totalChunks, totalSize) ==
  \/ Cardinality({g \in DOMAIN pair.files : pair.files[g].status \in {"sending", "paused"}})
       >= MAX_SIMULTANEOUS_FILES
  \/ (IF totalSize = NoSize THEN totalChunks * CHUNK_SIZE ELSE totalSize) > MAX_FILE_SIZE

\* C20 (as claimed): a file_meta rejected for capacity sends exactly one error
\* frame, to the connection it came from, and nothing to the peer; it creates
\* no record and leaves the file records, slots and clipboard history of the
\* session unchanged.
C20_RejectionSendsOneError ==
  [][\A c \in Conns, f \in FileIds, t \in BudgetTotals, z \in BudgetSizes :
       (CanReceive(c) /\ FileMeta(c, f, "x.bin", t, z) /\ OverCapacity(PairOf(c), t, z))
       => /\ Len(out') = 1
          /\ out'[1].to = c /\ out'[1].frame.type = "error"
          /\ sess' = sess]_vars

\* C20 (amended): a file_meta rejected for capacity creates no record and
\* leaves the file records, slots and clipboard history of the session and
\* every connection unchanged; it writes nothing to the peer, and to the
\* connection it came from exactly one error frame if that connection is
\* open and nothing otherwise.
C20_RejectionLaw ==
  [][\A c \in Conns, f \in FileIds, t \in BudgetTotals, z \in BudgetSizes :
       (CanReceive(c) /\ FileMeta(c, f, "x.bin", t, z) /\ OverCapacity(PairOf(c), t, z))
       => /\ sess' = sess /\ conn' = conn /\ registry' = registry
          /\ \A k \in DOMAIN out' : out'[k].to = c /\ out'[k].frame.type = "error"
          /\ Len(out') = IF conn[c].state = "open" THEN 1 ELSE 0]_vars

\* a file_meta refused on a session that has a record, a clipboard history
\* and an open peer
C20_Witness ==
  /\ Len(out) = 1
  /\ out[1].frame.type = "error"
  /\ out[1].frame.text = "Too many simultaneous file transfers"
  /\ LET pair == sess[conn[out[1].to].pairId]
     IN /\ DOMAIN pair.files # {}
        /\ Len(pair.clipboardHistory) > 0
        /\ IsOpen(conn, pair.slot[getOtherType(conn[out[1].to].clientType)])

\* file_meta frames whose totalChunks, fileId or fileName is not valid
InvalidMeta(fileId, fileName, totalChunks) ==
  totalChunks <= 0 \/ fileId = "" \/ fileName = ""

\* C21 (as claimed): a file_meta whose fileId is empty, whose fileName is empty
\* or whose totalChunks is not a positive integer is answered with the error
\* "Invalid file meta" and creates no record, however many transfers are
\* active in the session.
C21_InvalidMetaRejected ==
  [][\A c \in Conns, f \in FileIds, n \in MetaNames, t \in MetaTotals, z \in MetaSizes :
       (conn[c].state = "open" /\ InvalidMeta(f, n, t) /\ FileMeta(c, f, n, t, z))
       => /\ out' = <<[to |-> c, frame |-> TextFrame("error", "Invalid file meta")]>>
          /\ sess' = sess]_vars

\* the state-change notifications of the claims
Notification(e) ==
  e.frame.type \in {"status", "peer_disconnected", "file_paused", "file_resumed", "file_complete"}

\* C22 (as claimed, for the clipboard frame): whenever the forward of a frame
\* cannot be performed because the slot of the other role is unbound or its
\* connection is not open, the step sends a state-change notification (status,
\* peer_disconnected, file_paused, file_resumed or file_complete) to a
\* connected side; the handler of the frame has no retry.
C22_NoSilentDrop ==
  [][\A c \in Conns, x \in ClipContents :
       (/\ conn[c].state = "open"
        /\ ~IsOpen(conn, PairOf(c).slot[getOtherType(conn[c].clientType)])
        /\ Clipboard(c, x))
       => \E k \in DOMAIN out' : IsOpen(conn', out'[k].to) /\ Notification(out'[k])]_vars

\* a file_chunk frame for fileId read from connection c finds the record in
\* status sending and the receiver unavailable: the slot of the role other
\* than that of c is unbound or its socket is not open
FindsReceiverUnavailable(c, fileId) ==
  /\ CanReceive(c)
  /\ fileId \in DOMAIN PairOf(c).files
  /\ PairOf(c).files[fileId].status = "sending"
  /\ \E r \in Roles : r # conn[c].clientType /\ ~IsOpen(conn, PairOf(c).slot[r])

\* C25 (as claimed): when a file_chunk arrives for a record in status sending
\* and the other role's slot is unbound or its socket is not open, the status
\* becomes paused, the originating connection receives file_paused with reason
\* "Receiver unavailable", nothing is forwarded and receivedMap is unchanged.
C25_PausesAndNotifies ==
  [][\A c \in Conns, f \in FileIds, i \in ChunkIdx :
       (FindsReceiverUnavailable(c, f) /\ FileChunk(c, f, i))
       => LET new == sess'[conn[c].pairId].files[f]
          IN /\ new.status = "paused"
             /\ new.receivedMap = PairOf(c).files[f].receivedMap
             /\ \E k \in DOMAIN out' :
                  out'[k] = [to |-> c, frame |-> FileFrame("file_paused", f, "Receiver unavailable")]
             /\ \A k \in DOMAIN out' : out'[k].frame.type # "file_chunk"]_vars

\* C25 (amended): in that case the record becomes paused with nothing else
\* of it changed but its lastActivity, no frame is written to any connection
\* but the originating one, and the originating connection is written exactly
\* one frame, file_paused with reason "Receiver unavailable", if it is open and
\* nothing if it is not.
C25_ReceiverUnavailableLaw ==
  [][\A c \in Conns, f \in FileIds, i \in ChunkIdx :
       (FindsReceiverUnavailable(c, f) /\ FileChunk(c, f, i))
       => /\ sess'[conn[c].pairId].files[f]
               = [PairOf(c).files[f] EXCEPT !.status = "paused", !.lastActivity = now]
          /\ out' = IF conn[c].state = "open"
                    THEN <<[to |-> c, frame |-> FileFrame("file_paused", f, "Receiver unavailable")]>>
                    ELSE <<>>]_vars

\* a transfer with an acknowledged chunk was paused for the receiver's absence
C25_Witness ==
  /\ Len(out) = 1
  /\ out[1].frame.type = "file_paused"
  /\ out[1].frame.text = "Receiver unavailable"
  /\ LET file == sess[conn[out[1].to].pairId].files[out[1].frame.fileId]
     IN file.status = "paused" /\ file.receivedMap # {} /\ file.receivedChunks < file.totalChunks

\* the session of connection c has no record for fileId, or c is on the sender
\* side of a record for fileId that is paused
NoRecordOrPaused(c, fileId) ==
  \/ fileId \notin DOMAIN PairOf(c).files
  \/ /\ PairOf(c).files[fileId].status = "paused"
     /\ PairOf(c).files[fileId].senderType = conn[c].clientType

\* C26 (as claimed): while a fileId has no record in the session, or its record
\* is paused, neither the file_chunk handler nor the file_missing_chunks
\* handler writes a file_chunk frame for that fileId, and such a frame from
\* the sender changes no session state other than lastActivity.
C26_NoChunkWhilePaused ==
  [][\A c \in Conns, f \in FileIds :
       (CanReceive(c) /\ NoRecordOrPaused(c, f))
       => \A i \in ChunkIdx, ch \in ResendInputs :
            (FileChunk(c, f, i) \/ FileMissingChunks(c, f, ch))
            => /\ \A k \in DOMAIN out' :
                    ~(out'[k].frame.type = "file_chunk" /\ out'[k].frame.fileId = f)
               /\ UNCHANGED <<registry, sess, conn>>]_vars

\* receivedMap and receivedChunks of the record fileId of pair object p are
\* the same before and after the step
SameReceived(p, fileId) ==
  /\ sess'[p].files[fileId].receivedMap = sess[p].files[fileId].receivedMap
  /\ sess'[p].files[fileId].receivedChunks = sess[p].files[fileId].receivedChunks

SenderGone(o, c, fileId) ==
  Frames(o, LAMBDA e : e.to = c /\ e.frame = FileFrame("file_paused", fileId, "Sender disconnected"))

\* the record is one the closing role sends and its status is sending
SendingFrom(file, clientType) ==
  file.senderType = clientType /\ file.status = "sending"

Resuming(c, fileId) ==
  /\ conn[c].state = "open"
  /\ fileId \in DOMAIN PairOf(c).files
  /\ PairOf(c).files[fileId].senderType = conn[c].clientType
  /\ client.notice[fileId] = "Receiver unavailable"
  /\ fileId \in client.asked
  /\ IsOpen(conn, PairOf(c).slot[getOtherType(conn[c].clientType)])

\* C24: after a file was paused with reason "Receiver unavailable" and the
\* receiver has reconnected, a file_chunk frame the sender sends in response to
\* the server's file_missing_chunks is forwarded to the receiver.
C24_AutoResumeForwards ==
  [][\A c \in Conns, i \in ChunkIdx :
       Resuming(c, "F") /\ SendChunk(c, "F", i)
         => \E k \in DOMAIN out' :
               /\ out'[k].to = PairOf(c).slot[getOtherType(conn[c].clientType)]
               /\ out'[k].frame.type = "file_chunk"
               /\ out'[k].frame.chunkIndex = i]_vars

\* the sequence a is b with some of its entries left out
RECURSIVE IsSubSeq(_, _)
IsSubSeq(a, b) ==
  IF a = <<>> THEN TRUE
  ELSE IF b = <<>> THEN FALSE
  ELSE IF Head(a) = Head(b) THEN IsSubSeq(Tail(a), Tail(b))
  ELSE IsSubSeq(a, Tail(b))

\* C29: the file_chunk frames of a stream are written to the receiver in the
\* relative order in which the server received them from the sender, also when
\* a forward fails and is retried while later chunks of the file arrive.
C29_ForwardedInOrder == IsSubSeq(client.got, client.sent)

\* the frame is written to the connection of every side that is connected
ToldBothSides(o, pair, frame) ==
  \A r \in Roles :
    IsOpen(conn, pair.slot[r]) => \E k \in DOMAIN o : o[k] = [to |-> pair.slot[r], frame |-> frame]

\* the file_chunk frames for chunkIndex of fileId that o writes to connection c
ChunkFrames(o, c, fileId, chunkIndex) ==
  Frames(o, LAMBDA e : /\ e.to = c
                       /\ e.frame.type = "file_chunk"
                       /\ e.frame.fileId = fileId
                       /\ e.frame.chunkIndex = chunkIndex)

\* C28: a failed forward is retried at most CHUNK_RETRY_LIMIT times; when the
\* last attempt fails too the record becomes paused and file_paused with reason
\* "Relay failed" is sent to both sides; when an attempt succeeds (the send
\* returns, on a socket that is open) the chunk is delivered to the receiver
\* exactly once and the retry leaves the status alone.
C28_RetryThenPauseOrDeliver ==
  [][\A t \in timers :
       t.kind = "retry" =>
         LET pair == sess[t.pairId]
             had == t.fileId \in DOMAIN pair.files
         IN /\ t.attemptsLeft \in 0..(CHUNK_RETRY_LIMIT - 1)
            /\ RetryTimer(t, TRUE) /\ t.attemptsLeft > 0
                 => /\ \E u \in timers' : u = [t EXCEPT !.attemptsLeft = t.attemptsLeft - 1]
                    /\ out' = <<>>
                    /\ sess' = sess
            /\ RetryTimer(t, TRUE) /\ t.attemptsLeft = 0
                 => /\ \A u \in timers' \ timers : FALSE
                    /\ had => sess'[t.pairId].files[t.fileId].status = "paused"
                    /\ ToldBothSides(out', pair, FileFrame("file_paused", t.fileId, "Relay failed"))
            /\ RetryTimer(t, FALSE)
                 => /\ \A u \in timers' \ timers : FALSE
                    /\ sess' = sess
                    /\ IsOpen(conn, t.receiver)
                         => Cardinality(ChunkFrames(out', t.receiver, t.fileId, t.chunkIndex)) = 1]_vars

\* the record fileId of some pair object has the status
InStatus(fileId, status) ==
  \E p \in DOMAIN sess : fileId \in DOMAIN sess[p].files /\ sess[p].files[fileId].status = status

NoRecord(fileId) == \A p \in DOMAIN sess : fileId \notin DOMAIN sess[p].files

\* C23: with both sides connected and no send failing, a file whose sender
\* sends file_meta and every chunk and whose receiver acknowledges every chunk
\* it receives reaches status completed, both sides receive file_complete, and
\* the record is removed, FILE_CLEANUP_TIMEOUT after it completed.
C23_TransferRunsToCompletion ==
  /\ InStatus("F", "sending") ~> InStatus("F", "completed")
  /\ [](InStatus("F", "completed") => \A r \in Roles : <<r, "F">> \in client.done)
  /\ InStatus("F", "completed") ~> NoRecord("F")
  /\ [][InStatus("F", "completed") /\ NoRecord("F")'
          => \E t \in timers : /\ t.kind = "cleanup" /\ t.fileId = "F"
                               /\ t.due - FILE_CLEANUP_TIMEOUT \in 0..(now - FILE_CLEANUP_TIMEOUT)]_vars

\* the record of fileId is the one a file_meta of role clientType makes
Fresh(pair, fileId, clientType) ==
  /\ fileId \in DOMAIN pair.files
  /\ pair.files[fileId].receivedMap = {}
  /\ pair.files[fileId].receivedChunks = 0
  /\ pair.files[fileId].status = "sending"
  /\ pair.files[fileId].senderType = clientType

FromSender(c, fileId) ==
  /\ CanReceive(c)
  /\ fileId \in DOMAIN PairOf(c).files
  /\ conn[c].clientType = PairOf(c).files[fileId].senderType

\* the frame was read from a connection of the role that receives fileId
FromReceiver(c, fileId) ==
  /\ CanReceive(c)
  /\ fileId \in DOMAIN PairOf(c).files
  /\ conn[c].clientType # PairOf(c).files[fileId].senderType

StatusEdges == {<<"sending", "paused">>, <<"paused", "sending">>, <<"sending", "completed">>}

\* the step handles a file_meta for fileId (which puts a new record in place)
IsFileMeta(fileId) ==
  \E c \in Conns, t \in MetaTotals : CanReceive(c) /\ FileMeta(c, fileId, "x.bin", t, NoSize)

\* C33: every status change of a file record follows an edge of the machine:
\* sending to paused, paused to sending, or sending to completed; a paused
\* record never becomes completed directly, not even by a file_chunk_ack.
C33_StatusFollowsMachine ==
  [][\A p \in DOMAIN sess :
       ("F" \in DOMAIN sess[p].files /\ "F" \in DOMAIN sess'[p].files
          /\ sess'[p].files["F"].status # sess[p].files["F"].status
          /\ ~IsFileMeta("F"))
         => <<sess[p].files["F"].status, sess'[p].files["F"].status>> \in StatusEdges]_vars

\* C34: a text frame that is not valid JSON is dropped: the connection stays
\* as it is, open and bound to its slot, no frame is sent to either side, and
\* nothing of the session changes (files, history, slots, lastActivity).
C34_InvalidJsonDropped ==
  [][\A c \in Conns, raw \in RawFrames \ JsonTexts :
       (CanReceive(c) /\ RawFrame(c, raw))
         => /\ out' = <<>>
            /\ conn' = conn
            /\ sess' = sess
            /\ registry' = registry
            /\ lastActivity' = lastActivity
            /\ timers' = timers]_vars

\* a text that is not JSON has just been read in a session with both sides
\* connected, a clipboard history and a file record
C34_Witness ==
  /\ client.raw \in RawFrames \ JsonTexts
  /\ Len(client.raw) > 1
  /\ out = <<>>
  /\ \E p \in registry :
       /\ \A r \in Roles : IsOpen(conn, sess[p].slot[r])
       /\ Len(sess[p].clipboardHistory) > 0
       /\ "F" \in DOMAIN sess[p].files

\* the step writes a peer_disconnected frame naming role r to the connection
\* in the other slot of pair p
ToldPeerDisconnected(p, r) ==
  \E k \in DOMAIN out' :
    /\ out'[k].frame.type = "peer_disconnected"
    /\ out'[k].frame.text = r
    /\ out'[k].to = sess[p].slot[getOtherType(r)]

\* C35: a peer_disconnected frame naming side R is sent to the other side
\* exactly when slot R goes from bound to empty (and the other side is
\* connected), and never while a live connection is bound to slot R, so not
\* when R's connection was merely replaced by a newer one.
C35_PeerDisconnectedOnLoss ==
  [][\A p \in DOMAIN sess, r \in Roles :
       LET lost == sess[p].slot[r] # NoConn /\ sess'[p].slot[r] = NoConn
       IN /\ ToldPeerDisconnected(p, r) => lost /\ ~IsOpen(conn, sess[p].slot[r])
          /\ lost /\ IsOpen(conn, sess[p].slot[getOtherType(r)]) => ToldPeerDisconnected(p, r)]_vars

\* the step leaves session b alone: its pair object (slots, clipboard history,
\* file records) and lastActivity are unchanged and no frame is written to a
\* connection bound to it
Untouched(b) ==
  /\ sess'[b] = sess[b]
  /\ lastActivity'[b] = lastActivity[b]
  /\ \A k \in DOMAIN out' : out'[k].to # NoConn => conn[out'[k].to].pairId # b

\* C37: a frame received on a connection bound to session A changes neither
\* the slots, the clipboard history nor the file records of another session B,
\* and causes no frame to be sent to a connection bound to B.
C37_SessionIsolation ==
  [][\A c \in Conns \cup {Far} :
       (CanReceive(c) /\ FrameFrom(c))
         => \A b \in DOMAIN sess \ {conn[c].pairId} : Untouched(b)]_vars

\* a clipboard frame of the desktop of p1 has just been relayed to its phone,
\* while p2 has a connection, a history and a record under the same file id
C37_Witness ==
  /\ \E k \in DOMAIN out : out[k].to = Peer /\ out[k].frame.type = "clipboard"
  /\ IsOpen(conn, Far)
  /\ "F" \in DOMAIN sess["p2"].files
  /\ "F" \in DOMAIN sess["p1"].files
  /\ Len(sess["p2"].clipboardHistory) > 0

\* C32: a file record is eventually removed while its session lives. A
\* completed record is removed FILE_CLEANUP_TIMEOUT after its completion, a
\* record that is sending or paused is removed at the first stale tick after
\* its lastActivity is older than FILE_CLEANUP_TIMEOUT, and a record that is
\* not completed and not idle for that long is not removed by the timers.
RecordsOf(ss) == {<<p, f>> \in PairIds \X FileIds : p \in DOMAIN ss /\ f \in DOMAIN ss[p].files}

Removed(p, f) == <<p, f>> \in RecordsOf(sess) /\ p \in registry' /\ <<p, f>> \notin RecordsOf(sess')

C32_EventuallyRemoved == (RecordsOf(sess) # {}) ~> (RecordsOf(sess) = {})

C32_CompletedRemovedOnTime ==
  [][\A p \in PairIds, f \in FileIds :
       (Removed(p, f) /\ sess[p].files[f].status = "completed")
         => now = sess[p].files[f].lastActivity + FILE_CLEANUP_TIMEOUT]_vars

C32_OnlyIdleRemoved ==
  [][\A p \in PairIds, f \in FileIds :
       (Removed(p, f) /\ sess[p].files[f].status # "completed")
         => now - sess[p].files[f].lastActivity > FILE_CLEANUP_TIMEOUT]_vars

C32_StaleRemovedAtNextTick ==
  [](\A r \in RecordsOf(sess) :
       sess[r[1]].files[r[2]].status # "completed"
         => now - sess[r[1]].files[r[2]].lastActivity <= FILE_CLEANUP_TIMEOUT + STALE_INTERVAL)

C32_RecordsRemoved ==
  /\ C32_EventuallyRemoved
  /\ C32_CompletedRemovedOnTime
  /\ C32_OnlyIdleRemoved
  /\ C32_StaleRemovedAtNextTick

\* this step is a tick of the heartbeat
Ticked == \E c \in Conns : client'.beats[c] > client.beats[c]

\* a tick of the heartbeat terminates socket c in this step
TerminatedByHeartbeat(c) ==
  Ticked /\ conn[c].state \in {"open", "closing"} /\ conn'[c].state = "lost"

Pinged(c) ==
  \E k \in DOMAIN out' : out'[k].to = c /\ out'[k].frame.type = "ping"

\* the close handler has run for the role of socket c in this step
WentThroughDisconnect(c) ==
  LET p == conn[c].pairId
      r == conn[c].clientType
      other == sess[p].slot[getOtherType(r)]
  IN /\ (IsOpen(conn, other)
           => \E k \in DOMAIN out' : /\ out'[k].to = other
                                     /\ out'[k].frame.type = "peer_disconnected")
     /\ p \in registry'
          => /\ sess'[p].slot[r] = NoConn
             /\ \A f \in DOMAIN sess'[p].files :
                  sess'[p].files[f].senderType = r => sess'[p].files[f].status # "sending"

\* C31: at a tick of the heartbeat a socket whose alive flag is false is
\* terminated; any other gets its flag cleared and, if it is open, a ping; a
\* pong sets the flag. So a socket from which no pong has arrived is
\* terminated at its second tick, its close event is then handled and the
\* handler clears the slot, tells the peer if that is open and leaves no
\* file the side sends in status sending; and a socket from which a pong
\* arrived after every tick is not terminated by the heartbeat.
C31_Heartbeat ==
  /\ [][\A c \in Conns :
          /\ (Ticked /\ c \in Clients /\ ~conn[c].isAlive) => conn'[c].state = "lost"
          /\ (Ticked /\ c \in Clients /\ conn[c].isAlive)
               => /\ ~conn'[c].isAlive /\ conn'[c].state = conn[c].state
                  /\ conn[c].state = "open" => Pinged(c)
          /\ client'.pongs[c] > client.pongs[c] => conn'[c].isAlive
          /\ TerminatedByHeartbeat(c)
               => /\ client.pongs[c] < client.beats[c]
                  /\ client.pongs[c] = 0 => client.beats[c] = 1
          /\ (conn[c].state = "lost" /\ conn'[c].state = "none" /\ conn[c].pairId \in registry)
               => WentThroughDisconnect(c)]_vars
  /\ [](\A c \in Conns :
          (conn[c].state \in {"open", "closing"} /\ client.pongs[c] = 0) => client.beats[c] <= 1)
  /\ \A c \in Conns : (conn[c].state = "lost") ~> (conn[c].state = "none")

\* the desktop, which sends file F, never answered: it was terminated at its
\* second tick and its close event was handled, the phone being told and F
\* paused; the phone, which answered both pings, is still connected
C31_Witness ==
  \E c, d \in Conns :
    /\ conn[c].state = "none" /\ client.beats[c] = 2 /\ client.pongs[c] = 0
    /\ conn[d].state = "open" /\ client.beats[d] = 2 /\ client.pongs[d] = 2
    /\ conn[d].clientType = "app" /\ "p1" \in registry
    /\ sess["p1"].slot["pc"] = NoConn /\ sess["p1"].slot["app"] = d
    /\ "F" \in DOMAIN sess["p1"].files
    /\ sess["p1"].files["F"].senderType = "pc" /\ sess["p1"].files["F"].status = "paused"
    /\ \E k \in DOMAIN out : out[k].to = d /\ out[k].frame.type = "peer_disconnected"
====
